---- MODULE Spec2Model ----
(***************************************************************************)
(* A model of discord-support-agent: the intake filter and router of       *)
(* SupportMonitorBot (bot.py), the classification orchestrator             *)
(* (classifier.py) and the GitHub ticket deduplication engine              *)
(* (issue_tracker.py).                                                     *)
(*                                                                         *)
(* Text is modelled as a sequence of tokens, each token a chunk of         *)
(* characters ("help", "\n\n", "> ").  Python's `a in b` on strings is the *)
(* contiguous-subsequence test on the token sequences, and slicing and     *)
(* len() count tokens.                                                     *)
(***************************************************************************)
EXTENDS Integers, Sequences, FiniteSets, TLC

VARIABLES
    processed,   \* SupportMonitorBot._processed_message_ids
    settings,    \* Settings: issue_tracker, issue_categories, discord_guild_ids
    task,        \* the in-flight coroutines: on_message handlers / create_issue calls
    last,        \* what the most recent on_message delivery did
    issues,      \* the repository's tickets, oldest first (number = position)
    labels,      \* the names of the repository's labels
    txt,         \* inputs and results of the text functions applied to one message
    stats,       \* UsageTracker._stats of the classifier's usage_tracker
    returned,    \* history: the classify calls that have returned a result
    issue_tracker,  \* SupportMonitorBot.issue_tracker, or how its construction ended
    now,         \* the clock, datetime.now(UTC)
    snapshot,    \* the UsageStats object the last get_stats call returned
    calls,       \* the classify calls on the usage tracker's classifier
    recorded,    \* history: the usages recorded since the last reset, in order
    resets,      \* history: the reset calls so far
    delivered    \* history: the ids of the eligible deliveries so far

vars == <<processed, settings, task, last, issues, labels, txt, stats, returned, issue_tracker, now, snapshot, calls, recorded, resets, delivered>>

-----------------------------------------------------------------------------
(* Bounds of the model *)

\* message ids are 1..MaxMsgId
MaxMsgId == 4
\* on_message handlers in flight at the same time
MaxTasks == 2
\* _process_message handlers in flight at the same time in Spec
MaxHandlers == 1
\* create_issue calls made on the tracker
MaxCalls == 3
\* classify calls that return a result
MaxRequests == 2
\* tickets the repository holds at most
MaxIssues == 2
\* classify calls in flight at the same time on one usage tracker
MaxRecorders == 2
\* usages recorded between two resets
MaxRecords == 3
\* largest token count of one usage
MaxTokens == 1
\* last tick of the clock
MaxClock == 2
\* reset calls
MaxResets == 1
\* get_stats calls
MaxSnapshots == 1
\* longest message content (in characters) of the format specification
MaxChars == 6
\* _MAX_NOTIFICATION_LENGTH, 200 characters in bot.py:21, scaled down
MAX_NOTIFICATION_LENGTH == 4
\* longest message content (in tokens) of the text specification
MaxLen == 3
\* SupportMonitorBot._max_processed_cache, 10000 in bot.py:47, scaled down
max_processed_cache == 2
\* GitHubIssueTracker._DEDUP_SEARCH_LIMIT, 50 in issue_tracker.py:195, scaled down
DEDUP_SEARCH_LIMIT == 2
\* IssueTracker._TITLE_MAX_LENGTH, 50 characters in issue_tracker.py:68, in tokens
TITLE_MAX_LENGTH == 2

-----------------------------------------------------------------------------
(* Text *)

\* Python: a in b, for strings
IsSubstring(a, b) ==
    \E i \in 0..(Len(b) - Len(a)) : SubSeq(b, i + 1, i + Len(a)) = a

\* Python: s[:n]
Take(s, n) == SubSeq(s, 1, IF Len(s) < n THEN Len(s) ELSE n)

IsPrefix(a, b) == Len(a) <= Len(b) /\ SubSeq(b, 1, Len(a)) = a

Whitespace == {" ", "\n", "\n\n"}

\* Python: not s.strip()
IsBlank(s) == \A i \in 1..Len(s) : s[i] \in Whitespace

SeqsUpTo(S, n) == UNION {[1..k -> S] : k \in 1..n}

-----------------------------------------------------------------------------
(* classifier.py: categories and results *)

MessageCategory == {"support_request", "complaint", "bug_report", "general_chat", "other"}

\* str.replace("_", " ").title() of a category value
CategoryDisplay(c) ==
    CASE c = "support_request" -> "Support Request"
      [] c = "complaint"       -> "Complaint"
      [] c = "bug_report"      -> "Bug Report"
      [] c = "general_chat"    -> "General Chat"
      [] OTHER                 -> "Other"

-----------------------------------------------------------------------------
(* issue_tracker.py: the ticket text *)

\* A plausible slip: ">=" for ">", content of exactly the limit gets an ellipsis
build_title_ellipsis_at_limit(context) ==
    LET content_preview == Take(context.message_content, TITLE_MAX_LENGTH)
    IN  <<"[", CategoryDisplay(context.classification.category), "] ">>
        \o (IF Len(context.message_content) >= TITLE_MAX_LENGTH
            THEN content_preview \o <<"...">>
            ELSE content_preview)

\* issue_tracker.py:70-77
build_title(context) ==
    LET content_preview == Take(context.message_content, TITLE_MAX_LENGTH)
    IN  <<"[", CategoryDisplay(context.classification.category), "] ">>
        \o (IF Len(context.message_content) > TITLE_MAX_LENGTH
            THEN content_preview \o <<"...">>
            ELSE content_preview)

build_body(context) ==
    <<"## Discord Message", "\n\n",
      "**Author:** ", context.author_name, "\n",
      "**Channel:** #", context.channel_name, "\n",
      "**Server:** ", context.guild_name, "\n",
      "**Link:** ", context.message_url, "\n\n",
      "## Message Content", "\n\n",
      "> ">> \o context.message_content \o
    <<"\n\n", "## Classification", "\n\n",
      "- **Category:** ", context.classification.category, "\n",
      "- **Confidence:** ", ToString(context.classification.confidence), "%", "\n",
      "- **Reason:** ", context.classification.reason, "\n\n",
      "---", "\n",
      "<!-- discord_message_id:", ToString(context.message_id), " -->", "\n">>

\* A plausible slip: the entry of OTHER is missing from label_map, and the
\* default of label_map.get answers
get_labels_other_missing(context) ==
    LET c == context.classification.category
    IN  CASE c = "support_request" -> <<"support", "needs-response">>
          [] c = "complaint"       -> <<"complaint", "needs-response">>
          [] c = "bug_report"      -> <<"bug", "needs-triage">>
          [] OTHER                 -> <<>>

get_labels(context) ==
    LET c == context.classification.category
    IN  CASE c = "support_request" -> <<"support", "needs-response">>
          [] c = "complaint"       -> <<"complaint", "needs-response">>
          [] c = "bug_report"      -> <<"bug", "needs-triage">>
          [] c = "general_chat"    -> <<>>
          [] OTHER                 -> <<"needs-triage">>

\* the value None of an IssueInfo | None
None == [tracker |-> "None", issue_id |-> 0, issue_url |-> <<>>, title |-> <<>>]

\* issue.html_url of the ticket GitHub numbers `number`
html_url(number) == <<"https://github.com/owner/repo/issues/", ToString(number)>>

\* issue_tracker.py:230-243: the ticket repo.create_issue(title, body, labels)
\* makes, when GitHub numbers it `number`
NewIssue(number, context) ==
    [number |-> number, html_url |-> html_url(number),
     title |-> build_title(context), body |-> build_body(context),
     labels |-> get_labels(context), state |-> "open"]

IssueInfo(issue) ==
    [tracker |-> "github", issue_id |-> issue.number, issue_url |-> issue.html_url,
     title |-> issue.title]

\* repo.get_issues(state="open", sort="created", direction="desc"): the numbers
\* of the open tickets, newest first
RECURSIVE OpenDesc(_, _)
OpenDesc(repo, n) ==
    IF n = 0 THEN <<>>
    ELSE (IF repo[n].state = "open" THEN <<n>> ELSE <<>>) \o OpenDesc(repo, n - 1)

get_issues(repo) == OpenDesc(repo, Len(repo))

\* A plausible slip: the listing is not sliced, every open ticket is examined
SearchWindow_unbounded(repo) == get_issues(repo)

\* itertools.islice(repo.get_issues(...), _DEDUP_SEARCH_LIMIT)
SearchWindow(repo) == Take(get_issues(repo), DEDUP_SEARCH_LIMIT)

\* the test of issue_tracker.py:212; a body of None or "" is <<>>
BodyMatches(body, quoted_content) ==
    Len(body) > 0 /\ IsSubstring(quoted_content, body)

\* A plausible slip: the quote marker is built without its blank, ">" for "> "
find_existing_issue_wrong_quote(message_content, repo) ==
    LET quoted_content == <<">">> \o message_content
        window == SearchWindow(repo)
        hits == {k \in 1..Len(window) : BodyMatches(repo[window[k]].body, quoted_content)}
    IN  IF hits = {} THEN None
        ELSE LET first == CHOOSE k \in hits : \A j \in hits : k <= j
             IN  IssueInfo(repo[window[first]])

\* A plausible slip: when some ticket of the window matches, the info of the
\* first ticket listed is returned, not that of the ticket that matched
find_existing_issue_first_listed(message_content, repo) ==
    LET quoted_content == <<"> ">> \o message_content
        window == SearchWindow(repo)
        hits == {k \in 1..Len(window) : BodyMatches(repo[window[k]].body, quoted_content)}
    IN  IF hits = {} THEN None
        ELSE IssueInfo(repo[window[1]])

\* _find_existing_issue when the listing does not raise
find_existing_issue(message_content, repo) ==
    LET quoted_content == <<"> ">> \o message_content
        window == SearchWindow(repo)
        hits == {k \in 1..Len(window) : BodyMatches(repo[window[k]].body, quoted_content)}
    IN  IF hits = {} THEN None
        ELSE LET first == CHOOSE k \in hits : \A j \in hits : k <= j
             IN  IssueInfo(repo[window[first]])

-----------------------------------------------------------------------------
(* classifier.py: the output validator *)

attention_categories == {"support_request", "complaint", "bug_report"}

\* min_confidence = 0.3; confidences are in hundredths
min_confidence == 30

\* the confidences the predictor answers with: 0.10, 0.30, 0.95
Confidences == {10, 30, 95}

\* what the predictor may answer: any ClassificationResult
Candidates ==
    [category : MessageCategory, confidence : Confidences,
     reason : {"why"}, requires_attention : BOOLEAN]

\* raise ModelRetry(...)
ModelRetry ==
    [category |-> "ModelRetry", confidence |-> 0,
     reason |-> "Low confidence classification that requires attention.",
     requires_attention |-> FALSE]

NoResult ==
    [category |-> "NoResult", confidence |-> 0, reason |-> "", requires_attention |-> FALSE]

\* A plausible slip: the predictor's requires_attention is trusted
validate_trusting(result) ==
    IF result.confidence < min_confidence /\ result.requires_attention
    THEN ModelRetry
    ELSE result

\* A plausible slip: the low-confidence check is left out
validate_no_floor(result) ==
    [result EXCEPT !.requires_attention = result.category \in attention_categories]

validate_classification(result) ==
    LET expected_attention == result.category \in attention_categories
        corrected == [result EXCEPT !.requires_attention = expected_attention]
    IN  IF corrected.confidence < min_confidence /\ corrected.requires_attention
        THEN ModelRetry
        ELSE corrected

\* A plausible slip: one retry more
output_retries_plus_one == 3 + 1

\* Agent(..., output_retries=3): rejected candidates that are followed by a retry
output_retries == 3

\* Agent(..., retries=2): failed predictor invocations that are followed by a retry
retries == 2

-----------------------------------------------------------------------------
(* usage.py: the usage tracker *)

\* first_request_at and last_request_at of a tracker that has recorded nothing
\* (None, usage.py:27-28); the clock starts at 1
NoTime == 0

\* UsageStats(), usage.py:20-28
UsageStats ==
    [total_input_tokens |-> 0, total_output_tokens |-> 0, total_requests |-> 0,
     first_request_at |-> NoTime, last_request_at |-> NoTime]

\* result.usage() of an agent run that asked the predictor `requests` times
\* (classifier.py:237): one unit of input and one of output per request
RunUsage(requests) ==
    [requests |-> requests, input_tokens |-> requests, output_tokens |-> requests]

\* A plausible slip: one request is counted for every predictor request of the
\* run, the retried ones included
record_per_request(st, usage, at) ==
    [total_input_tokens |-> st.total_input_tokens + usage.input_tokens,
     total_output_tokens |-> st.total_output_tokens + usage.output_tokens,
     total_requests |-> st.total_requests + usage.requests,
     first_request_at |-> IF st.first_request_at = NoTime THEN at ELSE st.first_request_at,
     last_request_at |-> at]

\* A plausible slip: "=" for "+=", the totals hold the last usage only
record_overwrites(st, usage, at) ==
    [total_input_tokens |-> usage.input_tokens,
     total_output_tokens |-> usage.output_tokens,
     total_requests |-> st.total_requests + 1,
     first_request_at |-> IF st.first_request_at = NoTime THEN at ELSE st.first_request_at,
     last_request_at |-> at]

\* A plausible slip: the test `is None` is left out, every record sets
\* first_request_at
record_first_always(st, usage, at) ==
    [total_input_tokens |-> st.total_input_tokens + usage.input_tokens,
     total_output_tokens |-> st.total_output_tokens + usage.output_tokens,
     total_requests |-> st.total_requests + 1,
     first_request_at |-> at,
     last_request_at |-> at]

\* UsageTracker.record, usage.py:47-65, with `at` the value of now read in line
\* 53.  No await lies inside the lock, so the lock is never held when another
\* coroutine runs: acquiring it does not suspend, and the call runs from line
\* 53 to the release of the lock without any other coroutine in between.
record(st, usage, at) ==
    [total_input_tokens |-> st.total_input_tokens + usage.input_tokens,
     total_output_tokens |-> st.total_output_tokens + usage.output_tokens,
     total_requests |-> st.total_requests + 1,
     first_request_at |-> IF st.first_request_at = NoTime THEN at ELSE st.first_request_at,
     last_request_at |-> at]

\* A plausible slip: the counters are zeroed in place, the timestamps stay
reset_counters_only(st) ==
    [st EXCEPT !.total_input_tokens = 0, !.total_output_tokens = 0, !.total_requests = 0]

\* UsageTracker.reset, usage.py:112-114: the new object self._stats is bound to
reset(st) == UsageStats

\* An object of class UsageStats that a caller holds: its fields, and whether
\* it is the very object self._stats refers to
NoSnapshot == [taken |-> 0, object |-> [is_stats |-> FALSE, fields |-> UsageStats]]

\* A plausible slip: self._stats itself is returned
get_stats_no_copy(st) == [is_stats |-> TRUE, fields |-> st]

\* UsageTracker.get_stats, usage.py:76-81: copy(self._stats) is a new object
\* with the same field values, which are ints and datetimes
get_stats(st) == [is_stats |-> FALSE, fields |-> st]

-----------------------------------------------------------------------------
(* issue_tracker.py: the tracker factory.  A credential is a string, "" when   *)
(* it is not configured; the outcome is the class of the tracker returned or   *)
(* of the exception raised.                                                    *)

IssueTrackerType == {"none", "github", "linear"}

\* A plausible slip: missing GitHub credentials degrade to the no-op tracker
create_issue_tracker_degrades(tracker_type, github_token, github_repo, linear_api_key, linear_team_id) ==
    IF tracker_type = "none" THEN "NoOpIssueTracker"
    ELSE IF tracker_type = "github"
    THEN (IF github_token = "" \/ github_repo = ""
          THEN "NoOpIssueTracker"
          ELSE "GitHubIssueTracker")
    ELSE IF tracker_type = "linear"
    THEN (IF linear_api_key = "" \/ linear_team_id = ""
          THEN "ValueError"
          ELSE "NotImplementedError")
    ELSE "ValueError"

\* create_issue_tracker, issue_tracker.py:301-338
create_issue_tracker(tracker_type, github_token, github_repo, linear_api_key, linear_team_id) ==
    IF tracker_type = "none" THEN "NoOpIssueTracker"
    ELSE IF tracker_type = "github"
    THEN (IF github_token = "" \/ github_repo = ""
          THEN "ValueError"
          ELSE "GitHubIssueTracker")
    ELSE IF tracker_type = "linear"
    THEN (IF linear_api_key = "" \/ linear_team_id = ""
          THEN "ValueError"
          ELSE "NotImplementedError")
    ELSE "ValueError"

\* the tracker of a bot whose settings carry the credentials of their tracker
TrackerOf(st) ==
    IF st.issue_tracker = "none" THEN "NoOpIssueTracker" ELSE "GitHubIssueTracker"

-----------------------------------------------------------------------------
(* The messages the gateway delivers.  A message is immutable and its id      *)
(* unique, so its content and author are a function of the id: messages 1 and *)
(* 2 carry identical content, the content of 3 extends it, 4 is blank.        *)

MsgIds == 1..MaxMsgId

ContentTable == << <<"help">>, <<"help">>, <<"help", " with">>, <<" ">> >>

ContentOf(id) == ContentTable[((id - 1) % Len(ContentTable)) + 1]

\* message.guild is None (0) or a guild with this id
Guilds == {0, 1, 2}

\* bot.py:188-199, MessageContext(...)
MessageContext(id, content, result) ==
    [message_id |-> id,
     message_content |-> content,
     author_name |-> "alice",
     channel_name |-> "general",
     guild_name |-> "Community",
     message_url |-> "https://discord.com/channels/1/1/m",
     classification |-> result]

-----------------------------------------------------------------------------
(* The coroutines in flight *)

\* pc: where the coroutine is suspended; msg: the message; retries: rejected
\* candidates of the agent run; failures: failed predictor invocations of the
\* agent run; said: the requires_attention of the candidate
\* that was accepted, as the predictor gave it; result: what classify returned;
\* notified: the notification dispatch; attempted: create_issue was called;
\* searched: how the dedup search ended; window: the numbers of the tickets in
\* the dedup window of the repository when the search ran; ret:
\* the IssueInfo create_issue returned; created: the number of the ticket it
\* created (0: none); labelled: _ensure_labels_exist ran, the labels of the
\* repository were listed; raised: the call ended with an exception; caught: the
\* function whose except clause caught it; after: the calls that had returned
\* when this one started
IdleTask ==
    [pc |-> "idle", msg |-> 0, retries |-> 0, failures |-> 0, said |-> FALSE,
     result |-> NoResult,
     notified |-> "no", attempted |-> FALSE, searched |-> "no", window |-> <<>>,
     ret |-> None, created |-> 0, labelled |-> FALSE, raised |-> FALSE,
     caught |-> "none", after |-> {}]

Slots == DOMAIN task

\* the classify calls on the classifier of the usage tracker: "idle", or "run"
\* while agent.run is awaited (classifier.py:232)
NoCalls == [c \in 1..MaxRecorders |-> "idle"]

-----------------------------------------------------------------------------
(* bot.py: intake *)

\* A plausible slip: the guild is looked up in the list even when the list is
\* empty, so an empty list filters out every guild
Ignored_empty_list_blocks(bot, guild) ==
    \/ bot
    \/ guild = 0
    \/ guild \notin settings.discord_guild_ids

\* bot.py:59-69: bot authors, DMs and unmonitored guilds are ignored
Ignored(bot, guild) ==
    \/ bot
    \/ guild = 0
    \/ (settings.discord_guild_ids # {} /\ guild \notin settings.discord_guild_ids)

\* A plausible slip: the size test is off by one, so the set is trimmed one
\* insert too late
Evictions_late(ids) ==
    LET to_remove == Cardinality(ids) - max_processed_cache - 1
    IN  IF Cardinality(ids) > max_processed_cache + 1
        THEN {R \in SUBSET ids : Cardinality(R) = to_remove}
        ELSE {{}}

\* A plausible slip: the overflow is computed one too large, the trimmed set
\* ends one below the cap
Evictions_one_more(ids) ==
    LET to_remove == Cardinality(ids) - max_processed_cache + 1
    IN  IF Cardinality(ids) > max_processed_cache
        THEN {R \in SUBSET ids : Cardinality(R) = to_remove}
        ELSE {{}}

\* bot.py:77-81: list(set)[:to_remove] takes the first to_remove ids in the
\* set's iteration order, which the program does not control: any to_remove ids
Evictions(ids) ==
    LET to_remove == Cardinality(ids) - max_processed_cache
    IN  IF Cardinality(ids) > max_processed_cache
        THEN {R \in SUBSET ids : Cardinality(R) = to_remove}
        ELSE {{}}

-----------------------------------------------------------------------------
(* bot.py: the text of the notification *)

\* len() in characters of a text whose tokens are single characters, except
\* the token "..." of three
CharLen(s) == Len(s) + 2 * Cardinality({i \in 1..Len(s) : s[i] = "..."})

\* A plausible slip: the content is cut at the limit, and the ellipsis added
notification_content_cut_at_limit(content) ==
    IF CharLen(content) > MAX_NOTIFICATION_LENGTH
    THEN Take(content, MAX_NOTIFICATION_LENGTH) \o <<"...">>
    ELSE content

\* bot.py:145-148, the content _notify puts in the body
notification_content(content) ==
    IF CharLen(content) > MAX_NOTIFICATION_LENGTH
    THEN Take(content, MAX_NOTIFICATION_LENGTH - 3) \o <<"...">>
    ELSE content

-----------------------------------------------------------------------------
(* bot.py: the except clauses *)

\* A plausible slip: _process_message has no try block, the exception leaves
\* on_message
process_message_escapes(t) ==
    [t EXCEPT !.pc = "escaped", !.raised = TRUE]

\* bot.py:130-131: except Exception in _process_message logs and ends the handler
process_message_except(t) ==
    [t EXCEPT !.pc = "done", !.raised = TRUE, !.caught = "_process_message"]

\* A plausible slip: a message whose handler failed is un-marked, so that a
\* redelivery is tried again
seen_after_handler_forgets(ids, t) ==
    IF t.raised THEN ids \ {t.msg} ELSE ids

\* bot.py:89-131: the seen-set after a step that leaves the handler as t;
\* nothing in _process_message, its except clause included, reads or writes
\* _processed_message_ids
seen_after_handler(ids, t) == ids

\* A plausible slip: _maybe_create_issue has no try block of its own, the
\* exception of create_issue reaches the except clause of _process_message
maybe_create_issue_propagates(t) ==
    [t EXCEPT !.pc = "done", !.raised = TRUE, !.caught = "_process_message"]

\* bot.py:208-209: except Exception in _maybe_create_issue logs and returns
maybe_create_issue_except(t) ==
    [t EXCEPT !.pc = "done", !.raised = TRUE, !.caught = "_maybe_create_issue"]

-----------------------------------------------------------------------------
(* bot.py: the router, run when classify has returned `result` *)

\* A plausible slip: the allow-list is tested without "issue_categories and",
\* so an empty allow-list admits no category
maybe_create_issue_empty_skips(t, result) ==
    IF settings.issue_tracker = "none"
    THEN [t EXCEPT !.pc = "done"]
    ELSE IF result.category \notin settings.issue_categories
    THEN [t EXCEPT !.pc = "done"]
    ELSE [t EXCEPT !.pc = "search", !.attempted = TRUE]

\* A plausible slip: the test of the tracker kind is left out, only the
\* allow-list decides
maybe_create_issue_any_tracker(t, result) ==
    IF settings.issue_categories # {}
       /\ result.category \notin settings.issue_categories
    THEN [t EXCEPT !.pc = "done"]
    ELSE [t EXCEPT !.pc = "search", !.attempted = TRUE]

\* bot.py:164-202 up to the await of create_issue
maybe_create_issue(t, result) ==
    IF settings.issue_tracker = "none"
    THEN [t EXCEPT !.pc = "done"]
    ELSE IF settings.issue_categories # {}
            /\ result.category \notin settings.issue_categories
    THEN [t EXCEPT !.pc = "done"]
    ELSE [t EXCEPT !.pc = "search", !.attempted = TRUE]

\* A plausible slip: _notify is called from _maybe_create_issue, after the
\* test of the tracker kind, so without a tracker nobody is notified
route_notifies_when_tracked(t, result, notify_ok) ==
    IF ~result.requires_attention \/ settings.issue_tracker = "none"
    THEN [t EXCEPT !.pc = "done", !.retries = 0, !.failures = 0, !.result = result]
    ELSE IF ~notify_ok
    THEN process_message_except(
             [t EXCEPT !.retries = 0, !.failures = 0, !.result = result, !.notified = "failed"])
    ELSE maybe_create_issue(
             [t EXCEPT !.retries = 0, !.failures = 0, !.result = result, !.notified = "sent"], result)

\* A plausible slip: the two calls are swapped, _maybe_create_issue runs
\* before _notify
route_tracker_first(t, result, notify_ok) ==
    IF ~result.requires_attention
    THEN [t EXCEPT !.pc = "done", !.retries = 0, !.failures = 0, !.result = result]
    ELSE IF ~notify_ok
    THEN process_message_except(
             [maybe_create_issue([t EXCEPT !.retries = 0, !.failures = 0, !.result = result],
                                 result)
                 EXCEPT !.notified = "failed"])
    ELSE maybe_create_issue(
             [t EXCEPT !.retries = 0, !.failures = 0, !.result = result, !.notified = "sent"], result)

\* A plausible slip: the test of requires_attention is left out, every
\* classified message is notified and offered to the tracker
route_whatever_attention(t, result, notify_ok) ==
    IF ~notify_ok
    THEN process_message_except(
             [t EXCEPT !.retries = 0, !.failures = 0, !.result = result, !.notified = "failed"])
    ELSE maybe_create_issue(
             [t EXCEPT !.retries = 0, !.failures = 0, !.result = result, !.notified = "sent"], result)

\* bot.py:126-131: notify, then maybe create; send_notification raising
\* (notify_ok = FALSE) leaves the try block.  The retry counters of the agent
\* run end with the run.
route(t, result, notify_ok) ==
    IF ~result.requires_attention
    THEN [t EXCEPT !.pc = "done", !.retries = 0, !.failures = 0, !.result = result]
    ELSE IF ~notify_ok
    THEN process_message_except(
             [t EXCEPT !.retries = 0, !.failures = 0, !.result = result, !.notified = "failed"])
    ELSE maybe_create_issue(
             [t EXCEPT !.retries = 0, !.failures = 0, !.result = result, !.notified = "sent"], result)

-----------------------------------------------------------------------------
(* Actions of the bot *)

\* A plausible slip: the membership test is left out
AlreadyProcessed_never(id) == FALSE

\* bot.py:72
AlreadyProcessed(id) == id \in processed

\* A plausible slip: the id is marked only when its handler has finished, with
\* an await between the membership test and the insertion
add_processed_later(ids, id) == ids

\* bot.py:76
add_processed(ids, id) == ids \cup {id}

\* every delivery changes `last`: n is the parity of the deliveries so far
Delivery(id, bot, guild, outcome) ==
    [id |-> id, bot |-> bot, guild |-> guild, outcome |-> outcome, n |-> 1 - last.n]

FreeSlot(s) ==
    /\ task[s].pc = "idle"
    /\ \A r \in Slots : task[r].pc = "idle" => s <= r

Classifying(id) == [IdleTask EXCEPT !.pc = "classify", !.msg = id]

\* A plausible slip: the test of the content stands before the insertion, so
\* a blank message is not marked
on_message_blank_unmarked(id, bot, guild) ==
    /\ UNCHANGED <<settings, issues, labels, txt, stats, returned, issue_tracker, now, snapshot, calls, recorded, resets>>
    /\ IF Ignored(bot, guild)
       THEN /\ last' = Delivery(id, bot, guild, "ignored")
            /\ UNCHANGED <<processed, task>>
       ELSE IF AlreadyProcessed(id)
       THEN /\ last' = Delivery(id, bot, guild, "duplicate")
            /\ UNCHANGED <<processed, task>>
       ELSE IF IsBlank(ContentOf(id))
       THEN /\ last' = Delivery(id, bot, guild, "empty")
            /\ UNCHANGED <<processed, task>>
       ELSE /\ \E R \in Evictions(add_processed(processed, id)) :
                  processed' = add_processed(processed, id) \ R
            /\ last' = Delivery(id, bot, guild, "processing")
            /\ \E s \in Slots :
                  /\ FreeSlot(s)
                  /\ task' = [task EXCEPT ![s] = Classifying(id)]

\* bot.py:57-87 and, through _process_message and classify, up to the first
\* await of the predictor (classifier.py:232).  No await lies between the
\* membership test and the eviction.
on_message(id, bot, guild) ==
    /\ UNCHANGED <<settings, issues, labels, txt, stats, returned, issue_tracker, now, snapshot, calls, recorded, resets>>
    /\ IF Ignored(bot, guild)
       THEN /\ last' = Delivery(id, bot, guild, "ignored")
            /\ UNCHANGED <<processed, task>>
       ELSE IF AlreadyProcessed(id)
       THEN /\ last' = Delivery(id, bot, guild, "duplicate")
            /\ UNCHANGED <<processed, task>>
       ELSE /\ \E R \in Evictions(add_processed(processed, id)) :
                  processed' = add_processed(processed, id) \ R
            /\ IF IsBlank(ContentOf(id))
               THEN /\ last' = Delivery(id, bot, guild, "empty")
                    /\ UNCHANGED task
               ELSE /\ last' = Delivery(id, bot, guild, "processing")
                    /\ \E s \in Slots :
                          /\ FreeSlot(s)
                          /\ task' = [task EXCEPT ![s] = Classifying(id)]

\* The handler started by on_message runs to its end: _process_message
\* classifies, routes and catches every exception (bot.py:89-131); nothing in
\* it reads or writes _processed_message_ids.
HandlerEnds(s) ==
    /\ task[s].pc = "classify"
    /\ task' = [task EXCEPT ![s] = IdleTask]
    /\ UNCHANGED <<processed, settings, last, issues, labels, txt, stats, returned, issue_tracker, now, snapshot, calls, recorded, resets, delivered>>

\* bot.py:89-116: _process_message is entered for a message that passed the
\* intake and classify awaits the predictor
process_message(s, id) ==
    /\ FreeSlot(s)
    /\ ~IsBlank(ContentOf(id))
    /\ task' = [task EXCEPT ![s] = Classifying(id)]
    /\ UNCHANGED <<processed, settings, last, issues, labels, txt, stats, returned, issue_tracker, now, snapshot, calls, recorded, resets, delivered>>

\* The agent run's answer to a ModelRetry of the output validator: the
\* rejection is counted and the predictor is asked again, unless the count
\* exceeds the output_retries budget: then agent.run raises, classify re-raises
\* (classifier.py:233-235) and _process_message logs it (bot.py:130-131)
OutputRetry(t) ==
    IF t.retries + 1 > output_retries
    THEN process_message_except([t EXCEPT !.retries = t.retries + 1])
    ELSE [t EXCEPT !.retries = t.retries + 1]

\* A plausible slip: one budget is charged for the other as well, a failed
\* invocation also counts as a rejected candidate
RequestRetry_charges_both(t) ==
    IF t.failures + 1 > retries \/ t.retries + 1 > output_retries
    THEN process_message_except([t EXCEPT !.failures = t.failures + 1,
                                          !.retries = t.retries + 1])
    ELSE [t EXCEPT !.failures = t.failures + 1, !.retries = t.retries + 1]

\* The agent run's answer to a predictor invocation that fails: the failure is
\* counted and the predictor is asked again, unless the count exceeds the
\* retries budget: then agent.run raises, classify re-raises
\* (classifier.py:233-235) and _process_message logs it (bot.py:130-131)
RequestRetry(t) ==
    IF t.failures + 1 > retries
    THEN process_message_except([t EXCEPT !.failures = t.failures + 1])
    ELSE [t EXCEPT !.failures = t.failures + 1]

\* A predictor invocation of the agent run fails (classifier.py:232)
PredictorFails(s) ==
    /\ task[s].pc = "classify"
    /\ task' = [task EXCEPT ![s] = RequestRetry(task[s])]
    /\ processed' = seen_after_handler(processed, task'[s])
    /\ UNCHANGED <<settings, last, issues, labels, txt, stats, returned, issue_tracker, now, snapshot, calls, recorded, resets, delivered>>

\* The predictor answers with a candidate (classifier.py:232): the validator
\* runs (classifier.py:171-203); an accepted candidate is returned by classify
\* after the usage of the run is recorded (classifier.py:237-247) and routed
\* (bot.py:113-131) up to the next await.  At most MaxRequests calls return.
PredictorAnswers(s, candidate, notify_ok) ==
    /\ task[s].pc = "classify"
    /\ returned < MaxRequests
    /\ LET t == task[s]
           validated == validate_classification(candidate)
       IN  IF validated = ModelRetry
           THEN /\ task' = [task EXCEPT ![s] = OutputRetry(t)]
                /\ UNCHANGED <<stats, returned>>
           ELSE /\ task' = [task EXCEPT ![s] =
                       route([t EXCEPT !.said = candidate.requires_attention],
                             validated, notify_ok)]
                /\ stats' = record(stats, RunUsage(t.retries + 1), now)
                /\ returned' = returned + 1
    /\ processed' = seen_after_handler(processed, task'[s])
    /\ UNCHANGED <<settings, last, issues, labels, txt, issue_tracker, now, snapshot, calls, recorded, resets, delivered>>

\* agent.run raises (the predictor cannot be reached): classify re-raises
\* (classifier.py:233-235) and _process_message logs it (bot.py:130-131)
AgentRunRaises(s) ==
    /\ task[s].pc = "classify"
    /\ task' = [task EXCEPT ![s] = process_message_except(task[s])]
    /\ processed' = seen_after_handler(processed, task'[s])
    /\ UNCHANGED <<settings, last, issues, labels, txt, stats, returned, issue_tracker, now, snapshot, calls, recorded, resets, delivered>>

\* bot.py:201-209: the awaited create_issue returns an IssueInfo or raises;
\* either way _maybe_create_issue ends normally
CreateIssueEnds(s, ok) ==
    /\ task[s].pc = "search"
    /\ task' = [task EXCEPT ![s] =
           IF ok THEN [task[s] EXCEPT !.pc = "done"] ELSE maybe_create_issue_except(task[s])]
    /\ processed' = seen_after_handler(processed, task'[s])
    /\ UNCHANGED <<settings, last, issues, labels, txt, stats, returned, issue_tracker, now, snapshot, calls, recorded, resets, delivered>>

\* the handler coroutine ends: on_message has returned
Return(s) ==
    /\ task[s].pc = "done"
    /\ task' = [task EXCEPT ![s] = IdleTask]
    /\ UNCHANGED <<processed, settings, last, issues, labels, txt, stats, returned, issue_tracker, now, snapshot, calls, recorded, resets, delivered>>

-----------------------------------------------------------------------------
(* Actions of GitHubIssueTracker, each one run in an executor thread *)

\* issue_tracker.py:175-184: create_issue(context) is called and awaits the
\* search; at most MaxTasks calls are in flight
create_issue(s, id, category) ==
    /\ FreeSlot(s)
    /\ Cardinality({r \in Slots : task[r].pc \in {"search", "create"}}) < MaxTasks
    /\ ~IsBlank(ContentOf(id))
    /\ task' = [task EXCEPT ![s] =
           [IdleTask EXCEPT
               !.pc = "search", !.msg = id, !.attempted = TRUE,
               !.result = [category |-> category, confidence |-> 95, reason |-> "why",
                           requires_attention |-> category \in attention_categories],
               !.after = {r \in Slots : task[r].pc = "done"}]]
    /\ UNCHANGED <<processed, settings, last, issues, labels, txt, stats, returned, issue_tracker, now, snapshot, calls, recorded, resets, delivered>>

\* A plausible slip: _find_existing_issue has no try block, so a listing that
\* raises ends create_issue with that exception
FindExistingIssue_propagates(s, search_ok) ==
    /\ task[s].pc = "search"
    /\ LET t == task[s]
           existing == IF search_ok
                       THEN find_existing_issue(ContentOf(t.msg), issues)
                       ELSE None
           seen == SearchWindow(issues)
           how == IF search_ok THEN "ok" ELSE "failed"
       IN  task' = [task EXCEPT ![s] =
               IF ~search_ok
               THEN [t EXCEPT !.pc = "done", !.searched = how, !.window = seen,
                              !.raised = TRUE]
               ELSE IF existing # None
               THEN [t EXCEPT !.pc = "done", !.searched = how, !.window = seen,
                              !.ret = existing]
               ELSE [t EXCEPT !.pc = "create", !.searched = how, !.window = seen]]
    /\ UNCHANGED <<processed, settings, last, issues, labels, txt, stats, returned, issue_tracker, now, snapshot, calls, recorded, resets, delivered>>

\* issue_tracker.py:180-190 and 197-224.  When the listing raises
\* (search_ok = FALSE) the search answers None.
FindExistingIssue(s, search_ok) ==
    /\ task[s].pc = "search"
    /\ LET t == task[s]
           existing == IF search_ok
                       THEN find_existing_issue(ContentOf(t.msg), issues)
                       ELSE None
           seen == SearchWindow(issues)
           how == IF search_ok THEN "ok" ELSE "failed"
       IN  task' = [task EXCEPT ![s] =
               IF existing # None
               THEN [t EXCEPT !.pc = "done", !.searched = how, !.window = seen,
                              !.ret = existing]
               ELSE [t EXCEPT !.pc = "create", !.searched = how, !.window = seen]]
    /\ UNCHANGED <<processed, settings, last, issues, labels, txt, stats, returned, issue_tracker, now, snapshot, calls, recorded, resets, delivered>>

\* issue_tracker.py:254-273: every missing label is created; a creation that
\* raises is swallowed, so any subset `made` of the missing ones comes to exist
ensure_labels_exist(existing_labels, made) ==
    existing_labels \cup made

\* issue_tracker.py:226-252.  create_ok = FALSE: repo.create_issue raises, and
\* the exception reaches the caller of create_issue.
CreateIssueSync(s, made, create_ok) ==
    /\ task[s].pc = "create"
    /\ LET t == task[s]
           context == MessageContext(t.msg, ContentOf(t.msg), t.result)
           wanted == {get_labels(context)[k] : k \in 1..Len(get_labels(context))}
           number == Len(issues) + 1
           issue == NewIssue(number, context)
       IN  /\ made \subseteq (wanted \ labels)
           /\ labels' = ensure_labels_exist(labels, made)
           /\ IF create_ok
              THEN /\ Len(issues) < MaxIssues
                   /\ issues' = Append(issues, issue)
                   /\ task' = [task EXCEPT ![s] =
                          [t EXCEPT !.pc = "done", !.ret = IssueInfo(issue),
                                    !.created = number, !.labelled = (wanted # {})]]
              ELSE /\ issues' = issues
                   /\ task' = [task EXCEPT ![s] =
                          [t EXCEPT !.pc = "done", !.raised = TRUE,
                                    !.labelled = (wanted # {})]]
    /\ UNCHANGED <<processed, settings, last, txt, stats, returned, issue_tracker, now, snapshot, calls, recorded, resets, delivered>>

\* somebody closes a ticket on GitHub
CloseIssue(n) ==
    /\ n \in 1..Len(issues)
    /\ issues[n].state = "open"
    /\ issues' = [issues EXCEPT ![n].state = "closed"]
    /\ UNCHANGED <<processed, settings, task, last, labels, txt, stats, returned, issue_tracker, now, snapshot, calls, recorded, resets, delivered>>

-----------------------------------------------------------------------------
(* Spec: _process_message, from classification to the router *)

NoDelivery == [id |-> 0, bot |-> FALSE, guild |-> 0, outcome |-> "none", n |-> 0]

NoText == [pc |-> "none"]

DefaultCategories == {"support_request", "complaint", "bug_report"}

Init ==
    /\ processed = {}
    /\ settings \in [issue_tracker : {"none", "github"},
                     issue_categories : {{}, {"bug_report"}, DefaultCategories,
                                         {"general_chat", "other"}},
                     discord_guild_ids : {{}}]
    /\ task = [s \in 1..MaxHandlers |-> IdleTask]
    /\ last = NoDelivery
    /\ issues = <<>>
    /\ labels = {}
    /\ txt = NoText
    /\ stats = UsageStats
    /\ returned = 0
    /\ issue_tracker = TrackerOf(settings)
    /\ now = 1
    /\ snapshot = NoSnapshot
    /\ calls = NoCalls
    /\ recorded = <<>>
    /\ resets = 0
    /\ delivered = {}

Next ==
    \/ \E s \in Slots, id \in MsgIds : process_message(s, id)
    \/ \E s \in Slots, c \in Candidates, ok \in BOOLEAN : PredictorAnswers(s, c, ok)
    \/ \E s \in Slots : PredictorFails(s)
    \/ \E s \in Slots : AgentRunRaises(s)
    \/ \E s \in Slots, ok \in BOOLEAN : CreateIssueEnds(s, ok)
    \/ \E s \in Slots : Return(s)

Spec == Init /\ [][Next]_vars

\* Spec with the scheduling of the event loop: a coroutine that is ready to run
\* is run.  Whether and when the predictor and the tracker answer is theirs to
\* decide: classify awaits agent.run (classifier.py:232) and create_issue
\* awaits the executor (issue_tracker.py:180-193) without any bound on the wait.
SpecFair == Spec /\ WF_vars(\E s \in Slots : Return(s))

-----------------------------------------------------------------------------
(* SpecIntake: on_message, the intake filter *)

InitIntake ==
    /\ processed = {}
    /\ settings \in [issue_tracker : {"none"},
                     issue_categories : {DefaultCategories},
                     discord_guild_ids : {{}, {1}}]
    /\ task = [s \in 1..MaxTasks |-> IdleTask]
    /\ last = NoDelivery
    /\ issues = <<>>
    /\ labels = {}
    /\ txt = NoText
    /\ stats = UsageStats
    /\ returned = 0
    /\ issue_tracker = TrackerOf(settings)
    /\ now = 1
    /\ snapshot = NoSnapshot
    /\ calls = NoCalls
    /\ recorded = <<>>
    /\ resets = 0
    /\ delivered = {}

\* on_message, with the history of the deliveries that passed the filter of
\* bot.py:59-69
EligibleDelivery(id, bot, guild) ==
    /\ on_message(id, bot, guild)
    /\ delivered' = IF Ignored(bot, guild) THEN delivered ELSE delivered \cup {id}

NextIntake ==
    \/ \E id \in MsgIds, bot \in BOOLEAN, guild \in Guilds : EligibleDelivery(id, bot, guild)
    \/ \E s \in Slots : HandlerEnds(s)

SpecIntake == InitIntake /\ [][NextIntake]_vars

-----------------------------------------------------------------------------
(* SpecPipeline: on_message and the handlers it starts, up to the tracker call *)

\* what the predictor answers in SpecPipeline: a candidate that is accepted
\* and needs attention, one that is rejected, one that needs no attention
PipelineCandidates ==
    {[category |-> "bug_report", confidence |-> 95, reason |-> "why", requires_attention |-> TRUE],
     [category |-> "bug_report", confidence |-> 10, reason |-> "why", requires_attention |-> TRUE],
     [category |-> "general_chat", confidence |-> 95, reason |-> "why", requires_attention |-> FALSE]}

InitPipeline ==
    /\ processed = {}
    /\ settings = [issue_tracker |-> "github", issue_categories |-> {},
                   discord_guild_ids |-> {}]
    /\ task = [s \in 1..MaxTasks |-> IdleTask]
    /\ last = NoDelivery
    /\ issues = <<>>
    /\ labels = {}
    /\ txt = NoText
    /\ stats = UsageStats
    /\ returned = 0
    /\ issue_tracker = TrackerOf(settings)
    /\ now = 1
    /\ snapshot = NoSnapshot
    /\ calls = NoCalls
    /\ recorded = <<>>
    /\ resets = 0
    /\ delivered = {}

NextPipeline ==
    \/ \E id \in MsgIds : on_message(id, FALSE, 1) /\ UNCHANGED delivered
    \/ \E s \in Slots, c \in PipelineCandidates, ok \in BOOLEAN : PredictorAnswers(s, c, ok)
    \/ \E s \in Slots : AgentRunRaises(s)
    \/ \E s \in Slots, ok \in BOOLEAN : CreateIssueEnds(s, ok)
    \/ \E s \in Slots : Return(s)

SpecPipeline == InitPipeline /\ [][NextPipeline]_vars

-----------------------------------------------------------------------------
(* SpecConstruct: the construction of the bot, then the messages it is given *)

\* a credential of the settings: not configured, or configured
Credentials == {"", "secret"}

\* the outcomes of create_issue_tracker that are a tracker
Trackers == {"NoOpIssueTracker", "GitHubIssueTracker"}

\* bot.py:29-47, SupportMonitorBot.__init__: the tracker is built from the
\* settings; when create_issue_tracker raises, so does the constructor
SupportMonitorBot_init ==
    /\ issue_tracker = "unbuilt"
    /\ issue_tracker' = create_issue_tracker(settings.issue_tracker,
                                             settings.github_token, settings.github_repo,
                                             settings.linear_api_key, settings.linear_team_id)
    /\ UNCHANGED <<processed, settings, task, last, issues, labels, txt, stats, returned, now, snapshot, calls, recorded, resets, delivered>>

\* the gateway delivers a message to a bot that was constructed
Deliver(id, bot, guild) ==
    /\ issue_tracker \in Trackers
    /\ on_message(id, bot, guild)
    /\ UNCHANGED delivered

InitConstruct ==
    /\ processed = {}
    /\ settings \in [issue_tracker : IssueTrackerType,
                     issue_categories : {DefaultCategories},
                     discord_guild_ids : {{}},
                     github_token : Credentials, github_repo : Credentials,
                     linear_api_key : Credentials, linear_team_id : Credentials]
    /\ task = [s \in 1..MaxTasks |-> IdleTask]
    /\ last = NoDelivery
    /\ issues = <<>>
    /\ labels = {}
    /\ txt = NoText
    /\ stats = UsageStats
    /\ returned = 0
    /\ issue_tracker = "unbuilt"
    /\ now = 1
    /\ snapshot = NoSnapshot
    /\ calls = NoCalls
    /\ recorded = <<>>
    /\ resets = 0
    /\ delivered = {}

NextConstruct ==
    \/ SupportMonitorBot_init
    \/ \E id \in MsgIds, bot \in BOOLEAN, guild \in Guilds : Deliver(id, bot, guild)
    \/ \E s \in Slots : HandlerEnds(s)

SpecConstruct == InitConstruct /\ [][NextConstruct]_vars

-----------------------------------------------------------------------------
(* SpecTracker: create_issue calls on one GitHubIssueTracker *)

AllLabels == {"support", "needs-response", "complaint", "bug", "needs-triage"}

\* the category of the calls
TrackerCategories == {"bug_report"}

\* the labels get_labels asks for in those categories
TrackerLabels ==
    {l \in AllLabels : \E c \in TrackerCategories :
        LET wanted == get_labels([classification |-> [category |-> c]])
        IN  \E k \in 1..Len(wanted) : wanted[k] = l}

InitTracker ==
    /\ processed = {}
    /\ settings = [issue_tracker |-> "github", issue_categories |-> {},
                   discord_guild_ids |-> {}]
    /\ task = [s \in 1..MaxCalls |-> IdleTask]
    /\ last = NoDelivery
    /\ issues = <<>>
    /\ labels = {}
    /\ txt = NoText
    /\ stats = UsageStats
    /\ returned = 0
    /\ issue_tracker = TrackerOf(settings)
    /\ now = 1
    /\ snapshot = NoSnapshot
    /\ calls = NoCalls
    /\ recorded = <<>>
    /\ resets = 0
    /\ delivered = {}

NextTracker ==
    \/ \E s \in Slots, id \in MsgIds, c \in TrackerCategories : create_issue(s, id, c)
    \/ \E s \in Slots, ok \in BOOLEAN : FindExistingIssue(s, ok)
    \/ \E s \in Slots, made \in SUBSET TrackerLabels, ok \in BOOLEAN : CreateIssueSync(s, made, ok)
    \/ \E n \in 1..MaxIssues : CloseIssue(n)

SpecTracker == InitTracker /\ [][NextTracker]_vars

-----------------------------------------------------------------------------
(* SpecUsage: one UsageTracker, the classify calls that record on it, and a  *)
(* caller of get_stats and reset                                             *)

\* result.usage() of the agent runs
Usages == [requests : {1}, input_tokens : 1..MaxTokens, output_tokens : 0..MaxTokens]

\* the fields of a snapshot its holder assigns to
SnapshotFields == {"total_requests", "last_request_at"}

\* classifier.py:205-232: classify is called and awaits agent.run
ClassifyCall(c) ==
    /\ calls[c] = "idle"
    /\ calls' = [calls EXCEPT ![c] = "run"]
    /\ UNCHANGED <<processed, settings, task, last, issues, labels, txt, stats, returned, issue_tracker, now, snapshot, recorded, resets, delivered>>

\* classifier.py:236-238 and usage.py:47-65: agent.run has returned with
\* `usage` and the call records it.  The write goes to the object self._stats
\* refers to, and shows in the snapshot when the snapshot is that object.
\* recorded notes the call, and the calls in flight beside it.
RecordCall(c, usage) ==
    /\ calls[c] = "run"
    /\ Len(recorded) < MaxRecords
    /\ calls' = [calls EXCEPT ![c] = "idle"]
    /\ stats' = record(stats, usage, now)
    /\ snapshot' = IF snapshot.object.is_stats
                   THEN [snapshot EXCEPT !.object.fields = stats']
                   ELSE snapshot
    /\ recorded' = Append(recorded, [usage |-> usage, by |-> c, at |-> now,
                                     beside |-> {d \in DOMAIN calls : d # c /\ calls[d] = "run"}])
    /\ UNCHANGED <<processed, settings, task, last, issues, labels, txt, returned, issue_tracker, now, resets, delivered>>

\* usage.py:76-81
GetStats ==
    /\ snapshot.taken < MaxSnapshots
    /\ snapshot' = [taken |-> snapshot.taken + 1, object |-> get_stats(stats)]
    /\ UNCHANGED <<processed, settings, task, last, issues, labels, txt, stats, returned, issue_tracker, now, calls, recorded, resets, delivered>>

\* the holder of the snapshot assigns to one of its fields; the write shows in
\* self._stats when the snapshot is that object
MutateSnapshot(f) ==
    /\ snapshot.taken > 0
    /\ snapshot.object.fields[f] # -1
    /\ snapshot' = [snapshot EXCEPT !.object.fields[f] = -1]
    /\ stats' = IF snapshot.object.is_stats THEN snapshot'.object.fields ELSE stats
    /\ UNCHANGED <<processed, settings, task, last, issues, labels, txt, returned, issue_tracker, now, calls, recorded, resets, delivered>>

\* usage.py:112-114: self._stats is bound to a new object, so an object handed
\* out before is no longer that of the tracker
Reset ==
    /\ resets < MaxResets
    /\ stats' = reset(stats)
    /\ snapshot' = [snapshot EXCEPT !.object.is_stats = FALSE]
    /\ recorded' = <<>>
    /\ resets' = resets + 1
    /\ UNCHANGED <<processed, settings, task, last, issues, labels, txt, returned, issue_tracker, now, calls, delivered>>

\* time passes
Tick ==
    /\ now < MaxClock
    /\ now' = now + 1
    /\ UNCHANGED <<processed, settings, task, last, issues, labels, txt, stats, returned, issue_tracker, snapshot, calls, recorded, resets, delivered>>

InitUsage ==
    /\ processed = {}
    /\ settings = [issue_tracker |-> "none", issue_categories |-> DefaultCategories,
                   discord_guild_ids |-> {}]
    /\ task = [s \in 1..MaxTasks |-> IdleTask]
    /\ last = NoDelivery
    /\ issues = <<>>
    /\ labels = {}
    /\ txt = NoText
    /\ stats = UsageStats
    /\ returned = 0
    /\ issue_tracker = TrackerOf(settings)
    /\ now = 1
    /\ snapshot = NoSnapshot
    /\ calls = NoCalls
    /\ recorded = <<>>
    /\ resets = 0
    /\ delivered = {}

NextUsage ==
    \/ \E c \in DOMAIN calls : ClassifyCall(c)
    \/ \E c \in DOMAIN calls, usage \in Usages : RecordCall(c, usage)
    \/ GetStats
    \/ \E f \in SnapshotFields : MutateSnapshot(f)
    \/ Reset
    \/ Tick

SpecUsage == InitUsage /\ [][NextUsage]_vars

-----------------------------------------------------------------------------
(* SpecFormat: the texts made for one message that needs attention: the      *)
(* title and the labels of its ticket and the content of its notification.   *)
(* The content is a sequence of single characters.                           *)

Characters == {"a", " "}

\* message contents: on_message passes no blank content on (bot.py:84)
FormatContents == {c \in SeqsUpTo(Characters, MaxChars) : ~IsBlank(c)}

FormatResult(category) ==
    [category |-> category, confidence |-> 95, reason |-> "why",
     requires_attention |-> category \in attention_categories]

InitFormat ==
    /\ processed = {}
    /\ settings = [issue_tracker |-> "github", issue_categories |-> {},
                   discord_guild_ids |-> {}]
    /\ task = [s \in 1..MaxTasks |-> IdleTask]
    /\ last = NoDelivery
    /\ issues = <<>>
    /\ labels = {}
    /\ txt \in [pc : {"format"}, category : MessageCategory, content : FormatContents,
                done : {{}}, title : {<<>>}, labels : {<<>>}, notification : {<<>>}]
    /\ stats = UsageStats
    /\ returned = 0
    /\ issue_tracker = TrackerOf(settings)
    /\ now = 1
    /\ snapshot = NoSnapshot
    /\ calls = NoCalls
    /\ recorded = <<>>
    /\ resets = 0
    /\ delivered = {}

\* issue_tracker.py:70-77 applied to the message
FormatTitle ==
    /\ txt.pc = "format"
    /\ "title" \notin txt.done
    /\ txt' = [txt EXCEPT !.done = @ \cup {"title"},
                          !.title = build_title(MessageContext(1, txt.content,
                                                               FormatResult(txt.category)))]
    /\ UNCHANGED <<processed, settings, task, last, issues, labels, stats, returned, issue_tracker, now, snapshot, calls, recorded, resets, delivered>>

\* issue_tracker.py:102-111 applied to the message
FormatLabels ==
    /\ txt.pc = "format"
    /\ "labels" \notin txt.done
    /\ txt' = [txt EXCEPT !.done = @ \cup {"labels"},
                          !.labels = get_labels(MessageContext(1, txt.content,
                                                               FormatResult(txt.category)))]
    /\ UNCHANGED <<processed, settings, task, last, issues, labels, stats, returned, issue_tracker, now, snapshot, calls, recorded, resets, delivered>>

\* bot.py:145-148 applied to the message
FormatNotification ==
    /\ txt.pc = "format"
    /\ "notification" \notin txt.done
    /\ txt' = [txt EXCEPT !.done = @ \cup {"notification"},
                          !.notification = notification_content(txt.content)]
    /\ UNCHANGED <<processed, settings, task, last, issues, labels, stats, returned, issue_tracker, now, snapshot, calls, recorded, resets, delivered>>

NextFormat == FormatTitle \/ FormatLabels \/ FormatNotification

SpecFormat == InitFormat /\ [][NextFormat]_vars

-----------------------------------------------------------------------------
(* SpecText: _find_existing_issue applied to one ticket.  A ticket is filed  *)
(* for a message with content txt.existing, then the tracker is searched for *)
(* txt.content.                                                              *)

Alphabet == {"help", " with", "\n\n", "## Classification"}

\* message contents neither start nor end with white space
TextContents ==
    {c \in SeqsUpTo(Alphabet, MaxLen) : c[1] \notin Whitespace /\ c[Len(c)] \notin Whitespace}

TextResult ==
    [category |-> "support_request", confidence |-> 95, reason |-> "why",
     requires_attention |-> TRUE]

InitText ==
    /\ processed = {}
    /\ settings = [issue_tracker |-> "github", issue_categories |-> {},
                   discord_guild_ids |-> {}]
    /\ task = [s \in 1..MaxTasks |-> IdleTask]
    /\ last = NoDelivery
    /\ issues = <<>>
    /\ labels = {}
    /\ txt \in [pc : {"start"}, existing : TextContents, content : TextContents,
                found : {None}]
    /\ stats = UsageStats
    /\ returned = 0
    /\ issue_tracker = TrackerOf(settings)
    /\ now = 1
    /\ snapshot = NoSnapshot
    /\ calls = NoCalls
    /\ recorded = <<>>
    /\ resets = 0
    /\ delivered = {}

\* issue_tracker.py:226-252 for the first message
TextFile ==
    /\ txt.pc = "start"
    /\ LET context == MessageContext(1, txt.existing, TextResult)
       IN  issues' = <<NewIssue(1, context)>>
    /\ txt' = [txt EXCEPT !.pc = "filed"]
    /\ UNCHANGED <<processed, settings, task, last, labels, stats, returned, issue_tracker, now, snapshot, calls, recorded, resets, delivered>>

\* issue_tracker.py:197-224 for the second message
TextFind ==
    /\ txt.pc = "filed"
    /\ txt' = [txt EXCEPT !.pc = "searched",
                          !.found = find_existing_issue(txt.content, issues)]
    /\ UNCHANGED <<processed, settings, task, last, issues, labels, stats, returned, issue_tracker, now, snapshot, calls, recorded, resets, delivered>>

NextText == TextFile \/ TextFind

SpecText == InitText /\ [][NextText]_vars

-----------------------------------------------------------------------------
(* SpecSearch: one create_issue call on a repository that already holds      *)
(* tickets, filed by the program or by anybody else: open or closed, with no *)
(* body, with the body of a ticket for the same content, or with the body of *)
(* a ticket for another content.                                             *)

MaxListed == 4

SearchContents == {<<"help">>, <<"help", " with">>}

\* issue.body of the tickets of the repository: None, or a body of build_body
SearchBodies ==
    {<<>>} \cup {build_body(MessageContext(1, c, TextResult)) : c \in SearchContents}

\* the repositories of n tickets, numbered in the order of their creation
Repositories(n) ==
    {[k \in 1..n |-> [number |-> k, html_url |-> html_url(k), title |-> <<"t">>,
                      body |-> f[k].body, labels |-> <<>>, state |-> f[k].state]] :
        f \in [1..n -> [body : SearchBodies, state : {"open", "closed"}]]}

InitSearch ==
    /\ processed = {}
    /\ settings = [issue_tracker |-> "github", issue_categories |-> {},
                   discord_guild_ids |-> {}]
    /\ task = [s \in 1..MaxTasks |-> IdleTask]
    /\ last = NoDelivery
    /\ \E n \in 0..MaxListed : issues \in Repositories(n)
    /\ labels = {}
    /\ txt = [pc |-> "search", content |-> <<"help">>, found |-> None, created |-> 0,
              raised |-> FALSE]
    /\ stats = UsageStats
    /\ returned = 0
    /\ issue_tracker = TrackerOf(settings)
    /\ now = 1
    /\ snapshot = NoSnapshot
    /\ calls = NoCalls
    /\ recorded = <<>>
    /\ resets = 0
    /\ delivered = {}

\* issue_tracker.py:180-190 and 197-224: the search of create_issue; a match is
\* returned to the caller
SearchFind ==
    /\ txt.pc = "search"
    /\ LET existing == find_existing_issue(txt.content, issues)
       IN  txt' = [txt EXCEPT !.pc = IF existing # None THEN "done" ELSE "create",
                              !.found = existing]
    /\ UNCHANGED <<processed, settings, task, last, issues, labels, stats, returned, issue_tracker, now, snapshot, calls, recorded, resets, delivered>>

\* issue_tracker.py:193 and 226-252: no match, the ticket is created.
\* create_ok = FALSE: repo.create_issue raises, and so does create_issue.
SearchCreate(made, create_ok) ==
    /\ txt.pc = "create"
    /\ LET context == MessageContext(1, txt.content, TextResult)
           wanted == {get_labels(context)[k] : k \in 1..Len(get_labels(context))}
           number == Len(issues) + 1
       IN  /\ made \subseteq (wanted \ labels)
           /\ labels' = ensure_labels_exist(labels, made)
           /\ IF create_ok
              THEN /\ issues' = Append(issues, NewIssue(number, context))
                   /\ txt' = [txt EXCEPT !.pc = "done", !.created = number]
              ELSE /\ issues' = issues
                   /\ txt' = [txt EXCEPT !.pc = "done", !.raised = TRUE]
    /\ UNCHANGED <<processed, settings, task, last, stats, returned, issue_tracker, now, snapshot, calls, recorded, resets, delivered>>

NextSearch ==
    \/ SearchFind
    \/ \E made \in SUBSET {"support", "needs-response"}, ok \in BOOLEAN : SearchCreate(made, ok)

SpecSearch == InitSearch /\ [][NextSearch]_vars

-----------------------------------------------------------------------------
(* SpecLabels: _create_issue_sync, one call to GitHub at a time.  The calls  *)
(* run in the threads of the default executor, so the GitHub calls of two    *)
(* of them interleave.  txt.call[c] is the call c: pc, where it stands;      *)
(* wanted, the labels of _get_labels; existing, the names repo.get_labels    *)
(* listed; k, the index in wanted of the loop; issued, the labels            *)
(* repo.create_label was called for, in order; failed, those of them whose   *)
(* call raised; raised, the GitHub call whose exception ended the call;      *)
(* created, the number of the ticket it created.                             *)

MaxLabelCalls == 2

IdleCall ==
    [pc |-> "idle", category |-> "none", wanted |-> <<>>, existing |-> {}, k |-> 0,
     issued |-> <<>>, failed |-> {}, raised |-> "none", created |-> 0]

LabelCalls == 1..MaxLabelCalls

LabelResult(category) ==
    [category |-> category, confidence |-> 95, reason |-> "why",
     requires_attention |-> category \in attention_categories]

LabelContext(c) == MessageContext(c, <<"help">>, LabelResult(txt.call[c].category))

\* the labels the repository holds before the first call
InitialLabels == SUBSET {"needs-response", "bug"}

InitLabels ==
    /\ processed = {}
    /\ settings = [issue_tracker |-> "github", issue_categories |-> {},
                   discord_guild_ids |-> {}]
    /\ task = [s \in 1..MaxTasks |-> IdleTask]
    /\ last = NoDelivery
    /\ issues = <<>>
    /\ labels \in InitialLabels
    /\ txt = [pc |-> "labels", call |-> [c \in LabelCalls |-> IdleCall]]
    /\ stats = UsageStats
    /\ returned = 0
    /\ issue_tracker = TrackerOf(settings)
    /\ now = 1
    /\ snapshot = NoSnapshot
    /\ calls = NoCalls
    /\ recorded = <<>>
    /\ resets = 0
    /\ delivered = {}

\* issue_tracker.py:235: self.create_labels and labels; create_labels is True,
\* the factory passes no other value (issue_tracker.py:328)
create_labels_and_labels(wanted) == Len(wanted) > 0

\* issue_tracker.py:226-236: _create_issue_sync starts, for a message of the
\* category, and builds title, body and labels
CreateIssueSyncStarts(c, category) ==
    /\ txt.pc = "labels"
    /\ txt.call[c].pc = "idle"
    /\ LET wanted == get_labels([classification |-> [category |-> category]])
       IN  txt' = [txt EXCEPT !.call[c] =
               [IdleCall EXCEPT !.category = category, !.wanted = wanted,
                   !.pc = IF create_labels_and_labels(wanted) THEN "list" ELSE "ticket"]]
    /\ UNCHANGED <<processed, settings, task, last, issues, labels, stats, returned, issue_tracker, now, snapshot, calls, recorded, resets, delivered>>

\* the loop of _ensure_labels_exist stands before wanted[k]: past the last
\* label the function returns and the ticket is next
LoopAt(call, k) ==
    IF k > Len(call.wanted)
    THEN [call EXCEPT !.pc = "ticket", !.k = k]
    ELSE [call EXCEPT !.pc = "ensure", !.k = k]

\* issue_tracker.py:256: repo.get_labels() lists the labels of the repository;
\* when it raises, nothing catches the exception in _create_issue_sync
GetLabels(c, ok) ==
    /\ txt.pc = "labels"
    /\ txt.call[c].pc = "list"
    /\ txt' = [txt EXCEPT !.call[c] =
           IF ok
           THEN LoopAt([@ EXCEPT !.existing = labels], 1)
           ELSE [@ EXCEPT !.pc = "done", !.raised = "get_labels"]]
    /\ UNCHANGED <<processed, settings, task, last, issues, labels, stats, returned, issue_tracker, now, snapshot, calls, recorded, resets, delivered>>

\* A plausible slip: the listing is not consulted, every label is created
label_not_in_existing_ignored(label, existing_labels) == TRUE

\* issue_tracker.py:267
label_not_in_existing(label, existing_labels) == label \notin existing_labels

\* A plausible slip: create_label is called outside the try block, its exception
\* ends _ensure_labels_exist and _create_issue_sync
create_label_except_propagates(call, label) ==
    [call EXCEPT !.pc = "done", !.failed = @ \cup {label}, !.raised = "create_label"]

\* issue_tracker.py:272-273: the exception of create_label is logged and the
\* loop goes on
create_label_except(call, label) ==
    LoopAt([call EXCEPT !.failed = @ \cup {label}], call.k + 1)

\* issue_tracker.py:266-273: one round of the loop.  A label the listing did
\* not hold is created: GitHub refuses a name the repository holds by now,
\* and the call can fail for any other reason (ok = FALSE)
EnsureLabel(c, ok) ==
    /\ txt.pc = "labels"
    /\ txt.call[c].pc = "ensure"
    /\ LET call == txt.call[c]
           label == call.wanted[call.k]
           issued == [call EXCEPT !.issued = Append(@, label)]
       IN  IF label_not_in_existing(label, call.existing)
           THEN IF ok /\ label \notin labels
                THEN /\ labels' = labels \cup {label}
                     /\ txt' = [txt EXCEPT !.call[c] = LoopAt(issued, call.k + 1)]
                ELSE /\ labels' = labels
                     /\ txt' = [txt EXCEPT !.call[c] = create_label_except(issued, label)]
           ELSE /\ labels' = labels
                /\ txt' = [txt EXCEPT !.call[c] = LoopAt(call, call.k + 1)]
    /\ UNCHANGED <<processed, settings, task, last, issues, stats, returned, issue_tracker, now, snapshot, calls, recorded, resets, delivered>>

\* issue_tracker.py:239-252: repo.create_issue(title, body, labels); when it
\* raises, so does _create_issue_sync
RepoCreateIssue(c, ok) ==
    /\ txt.pc = "labels"
    /\ txt.call[c].pc = "ticket"
    /\ IF ok
       THEN /\ issues' = Append(issues, NewIssue(Len(issues) + 1, LabelContext(c)))
            /\ txt' = [txt EXCEPT !.call[c] =
                   [@ EXCEPT !.pc = "done", !.created = Len(issues) + 1]]
       ELSE /\ issues' = issues
            /\ txt' = [txt EXCEPT !.call[c] =
                   [@ EXCEPT !.pc = "done", !.raised = "create_issue"]]
    /\ UNCHANGED <<processed, settings, task, last, labels, stats, returned, issue_tracker, now, snapshot, calls, recorded, resets, delivered>>

NextLabels ==
    \/ \E c \in LabelCalls, category \in MessageCategory : CreateIssueSyncStarts(c, category)
    \/ \E c \in LabelCalls, ok \in BOOLEAN : GetLabels(c, ok)
    \/ \E c \in LabelCalls, ok \in BOOLEAN : EnsureLabel(c, ok)
    \/ \E c \in LabelCalls, ok \in BOOLEAN : RepoCreateIssue(c, ok)

SpecLabels == InitLabels /\ [][NextLabels]_vars

-----------------------------------------------------------------------------
(* SpecEndToEnd: one message at a time through the whole pipeline: on_message, *)
(* classify with its validator, the router, and create_issue on the GitHub    *)
(* tracker with its search and its ticket creation.                           *)

\* the messages: two ids with the same content
EndToEndIds == {1, 2}

\* what the predictor answers: a category that needs attention and one that
\* does not, with a confidence below and above the floor, flagged or not
EndToEndCandidates ==
    {c \in Candidates : c.category \in {"bug_report", "other"} /\ c.confidence \in {10, 95}}

InitEndToEnd ==
    /\ processed = {}
    /\ settings \in [issue_tracker : {"github"},
                     issue_categories : {{}, {"general_chat", "other"}},
                     discord_guild_ids : {{}}]
    /\ task = [s \in 1..MaxHandlers |-> IdleTask]
    /\ last = NoDelivery
    /\ issues = <<>>
    /\ labels = {}
    /\ txt = NoText
    /\ stats = UsageStats
    /\ returned = 0
    /\ issue_tracker = TrackerOf(settings)
    /\ now = 1
    /\ snapshot = NoSnapshot
    /\ calls = NoCalls
    /\ recorded = <<>>
    /\ resets = 0
    /\ delivered = {}

\* bot.py:201-209 around issue_tracker.py:197-224: the search of the awaited
\* create_issue; its outcome belongs to the handler, whose seen-set is untouched
TrackerSearch(s, ok) ==
    /\ FindExistingIssue(s, ok)
    /\ task[s].attempted

\* bot.py:201-209 around issue_tracker.py:226-252: the ticket creation of the
\* awaited create_issue; an exception is caught by _maybe_create_issue
TrackerCreate(s, made, ok) ==
    /\ CreateIssueSync(s, made, ok)
    /\ task[s].attempted

NextEndToEnd ==
    \/ \E id \in EndToEndIds : on_message(id, FALSE, 1) /\ UNCHANGED delivered
    \/ \E s \in Slots, c \in EndToEndCandidates, ok \in BOOLEAN : PredictorAnswers(s, c, ok)
    \/ \E s \in Slots : AgentRunRaises(s)
    \/ \E s \in Slots, ok \in BOOLEAN : TrackerSearch(s, ok)
    \/ \E s \in Slots, made \in SUBSET TrackerLabels, ok \in BOOLEAN : TrackerCreate(s, made, ok)
    \/ \E s \in Slots : Return(s)

SpecEndToEnd == InitEndToEnd /\ [][NextEndToEnd]_vars

-----------------------------------------------------------------------------
(* Properties of the intake filter, under SpecIntake *)

\* C1: whatever messages are delivered, the seen-set never holds more than
\* max_processed_cache ids once on_message has run its eviction: the insert
\* that overfills the set trims it back to the cap in the same step
C1_SeenSetWithinCap ==
    Cardinality(processed) <= max_processed_cache

\* a delivery has filled the set beyond the cap and an id that passed earlier,
\* still being handled, has been evicted
C1_Witness ==
    /\ Cardinality(processed) = max_processed_cache
    /\ last.outcome \in {"processing", "empty"}
    /\ \E s \in Slots : task[s].pc = "classify" /\ task[s].msg \notin processed

\* C2: for an eligible delivery of id: if id is in the seen-set the delivery is
\* dropped and neither the seen-set nor any handler changes (no classification,
\* and so no notification or ticket); if it is not, id is inserted (only the
\* eviction of an overfull set can take it out again) and, unless the content
\* is blank, a handler is started for it
C2_FirstPassesLaterDropped ==
    [][ (last' # last /\ last'.outcome # "ignored") =>
          LET id == last'.id
          IN  IF id \in processed
              THEN /\ last'.outcome = "duplicate"
                   /\ processed' = processed
                   /\ task' = task
                   /\ issues' = issues
                   /\ labels' = labels
              ELSE /\ last'.outcome \in {"processing", "empty"}
                   /\ processed' \subseteq processed \cup {id}
                   /\ (id \in processed' \/ Cardinality(processed) = max_processed_cache)
                   /\ (last'.outcome = "processing") = (~IsBlank(ContentOf(id)))
                   /\ (last'.outcome = "processing" =>
                          \E s \in Slots : /\ task[s].pc = "idle"
                                           /\ task' = [task EXCEPT ![s] = Classifying(id)])
                   /\ (last'.outcome = "empty" => task' = task)
      ]_vars

\* a second delivery of an id was dropped while the handler of the first is
\* still classifying
C2_Witness ==
    /\ last.outcome = "duplicate"
    /\ last.id \in processed
    /\ \E s \in Slots : task[s].pc = "classify" /\ task[s].msg = last.id

-----------------------------------------------------------------------------
(* Properties of classify and of the router, under Spec *)

\* C3: every result classify has returned has requires_attention equal to
\* "category is support_request, complaint or bug_report", whatever the
\* predictor answered
C3_AttentionMatchesCategory ==
    \A s \in Slots :
        task[s].result # NoResult =>
            task[s].result.requires_attention
                = (task[s].result.category \in {"support_request", "complaint", "bug_report"})

\* classify returned a result whose requires_attention differs from the one
\* the predictor gave
C3_Witness ==
    \E s \in Slots :
        /\ task[s].pc = "done"
        /\ task[s].result # NoResult
        /\ task[s].said # task[s].result.requires_attention

\* C4: no result returned by classify requires attention with a confidence
\* below 0.3
C4_NoLowConfidenceAttention ==
    \A s \in Slots :
        (task[s].result # NoResult /\ task[s].result.requires_attention)
            => task[s].result.confidence >= 30

\* a candidate was rejected and the predictor is being asked again
C4_Witness ==
    \E s \in Slots : task[s].pc = "classify" /\ task[s].retries = 1

\* C5: a classify call asks the predictor again after at most 3 rejected
\* candidates; the 4th rejection ends the call with an exception and no result
C5_OutputRetriesBounded ==
    \A s \in Slots :
        /\ task[s].retries <= 4
        /\ (task[s].pc = "classify" => task[s].retries <= 3)
        /\ (task[s].retries = 4 =>
               /\ task[s].pc = "done"
               /\ task[s].raised
               /\ task[s].result = NoResult)

\* the predictor answered with four rejected candidates and classify raised
C5_Witness ==
    \E s \in Slots : task[s].retries = 4 /\ task[s].raised /\ task[s].pc = "done"

-----------------------------------------------------------------------------
(* Properties of the deduplication engine, under SpecTracker *)

SameContent(s1, s2) ==
    /\ task[s1].msg # 0
    /\ task[s2].msg # 0
    /\ ContentOf(task[s1].msg) = ContentOf(task[s2].msg)

Listed(s, number) ==
    \E k \in 1..Len(task[s].window) : task[s].window[k] = number

\* C6 as stated: when a create_issue call s2 starts after a call s1 with
\* identical content has returned a ticket, that ticket is open and within the
\* dedup window when s2 searches, and s2 returns a ticket, s2 returns that
\* very ticket and creates none
C6_SecondFindsFirst ==
    \A s1, s2 \in Slots :
        (/\ s1 \in task[s2].after
         /\ SameContent(s1, s2)
         /\ task[s1].ret # None
         /\ task[s2].pc = "done"
         /\ task[s2].ret # None
         /\ Listed(s2, task[s1].ret.issue_id))
        => (task[s2].ret.issue_id = task[s1].ret.issue_id /\ task[s2].created = 0)

\* C6 as amended: if moreover the search of s2 did not fail, s2 creates no
\* ticket and returns the newest ticket of the window whose body holds the
\* quoted content: the first call's ticket, or a newer one
C6_SecondCreatesNone ==
    \A s1, s2 \in Slots :
        (/\ s1 \in task[s2].after
         /\ SameContent(s1, s2)
         /\ task[s1].ret # None
         /\ task[s2].searched = "ok"
         /\ Listed(s2, task[s1].ret.issue_id))
        => LET quoted == <<"> ">> \o ContentOf(task[s2].msg)
               found == task[s2].ret.issue_id
           IN  /\ task[s2].pc = "done"
               /\ task[s2].created = 0
               /\ ~task[s2].raised
               /\ task[s2].ret # None
               /\ Listed(s2, found)
               /\ IsSubstring(quoted, issues[found].body)
               /\ found >= task[s1].ret.issue_id
               /\ \A n \in 1..Len(issues) :
                      (Listed(s2, n) /\ IsSubstring(quoted, issues[n].body)) => n <= found

\* the first call created a ticket and the second, started after it had
\* returned and for another message id, returned that ticket
C6_Witness ==
    \E s1, s2 \in Slots :
        /\ s1 \in task[s2].after
        /\ SameContent(s1, s2)
        /\ task[s1].msg # task[s2].msg
        /\ task[s1].created # 0
        /\ task[s2].pc = "done"
        /\ task[s2].searched = "ok"
        /\ task[s2].created = 0
        /\ task[s2].ret = task[s1].ret

\* C7: two create_issue calls with identical content that overlap in time,
\* whose searches both succeeded, never both create a ticket
C7_NoDuplicateUnderOverlap ==
    \A s1, s2 \in Slots :
        (/\ s1 # s2
         /\ SameContent(s1, s2)
         /\ s1 \notin task[s2].after
         /\ s2 \notin task[s1].after
         /\ task[s1].searched = "ok"
         /\ task[s2].searched = "ok"
         /\ \A n \in 1..Len(issues) : issues[n].state = "open")
        => ~(task[s1].created # 0 /\ task[s2].created # 0)

-----------------------------------------------------------------------------
(* Properties of the dedup search, under SpecText *)

\* C8: a ticket whose quoted message is a proper prefix of the new content is
\* never returned by the search
C8_NoMatchOnProperPrefix ==
    (/\ txt.pc = "searched"
     /\ IsPrefix(txt.existing, txt.content)
     /\ txt.existing # txt.content)
    => txt.found = None

\* C9: the search returns a ticket only if its quoted message equals the new
\* content
C9_ExactMatchOnly ==
    (txt.pc = "searched" /\ txt.found # None) => txt.existing = txt.content

-----------------------------------------------------------------------------
(* Properties of the router and of the except clauses, under Spec *)

\* C11: when the tracker kind is none, no handler builds a ticket context or
\* calls create_issue, whatever the category and the allow-list
C11_NoTrackerNoCall ==
    settings.issue_tracker = "none" =>
        \A s \in Slots : ~task[s].attempted /\ task[s].pc # "search"

\* with tracker kind none and an empty allow-list, _maybe_create_issue ran for
\* a result that requires attention and returned
C11_Witness ==
    /\ settings.issue_tracker = "none"
    /\ settings.issue_categories = {}
    /\ \E s \in Slots :
          /\ task[s].pc = "done"
          /\ task[s].notified = "sent"
          /\ task[s].result.requires_attention

\* C12: every handler whose accepted classification requires attention has
\* attempted the notification dispatch (it was sent or it raised), whatever the
\* tracker kind and the allow-list
C12_NotificationAlwaysAttempted ==
    \A s \in Slots :
        (task[s].result # NoResult /\ task[s].result.requires_attention)
            => task[s].notified \in {"sent", "failed"}

\* a notification went out with tracker kind none and a category outside the
\* allow-list
C12_Witness ==
    /\ settings.issue_tracker = "none"
    /\ settings.issue_categories = {"bug_report"}
    /\ \E s \in Slots : task[s].notified = "sent" /\ task[s].result.category = "complaint"

\* C13: when the notification dispatch raised, the eligibility check is still
\* carried out: with an active tracker and a category the allow-list admits,
\* create_issue is called
C13_TicketDespiteNotificationFailure ==
    \A s \in Slots :
        (/\ task[s].notified = "failed"
         /\ settings.issue_tracker # "none"
         /\ (\/ settings.issue_categories = {}
             \/ task[s].result.category \in settings.issue_categories))
        => task[s].attempted

\* C14: a handler whose classify call raised (no result) has dispatched no
\* notification and made no tracker call, and the exception was caught by
\* _process_message: the handler ended, nothing left on_message
C14_ClassifyFailureAborts ==
    \A s \in Slots :
        (task[s].raised /\ task[s].result = NoResult)
            => /\ task[s].pc = "done"
               /\ task[s].caught = "_process_message"
               /\ task[s].notified = "no"
               /\ ~task[s].attempted

\* classify raised on the first answer of the agent run, with an active tracker
\* and an empty allow-list
C14_Witness ==
    /\ settings.issue_tracker = "github"
    /\ settings.issue_categories = {}
    /\ \E s \in Slots :
          /\ task[s].raised
          /\ task[s].result = NoResult
          /\ task[s].retries = 0
          /\ task[s].pc = "done"

-----------------------------------------------------------------------------
(* Properties of the whole handler, under SpecPipeline *)

\* the delivery of an eligible message that is not in the seen-set and not
\* blank starts a handler that classifies it
StillClassified ==
    LET id == last'.id
    IN  (id \notin processed /\ ~IsBlank(ContentOf(id)))
            => /\ last'.outcome = "processing"
               /\ \E s \in Slots : /\ task[s].pc = "idle"
                                   /\ task' = [task EXCEPT ![s] = Classifying(id)]

\* C15: the step in which the handler of a message fails (in classification,
\* notification or ticket creation) changes neither the seen-set nor any other
\* handler, no step other than a delivery changes the seen-set, and a message
\* delivered while a failed handler is around is still classified
C15_FailuresStayInTheirMessage ==
    [][ /\ \A s \in Slots :
              (task'[s].raised /\ ~task[s].raised)
                  => /\ processed' = processed
                     /\ task[s].msg \in processed => task'[s].msg \in processed'
                     /\ \A r \in Slots \ {s} : task'[r] = task[r]
        /\ (last' = last => processed' = processed)
        /\ ((last' # last /\ \E s \in Slots : task[s].raised) => StillClassified)
      ]_vars

\* the handler of one message has failed, its id is still in the seen-set, and
\* another message, the last one delivered, is being classified
C15_Witness ==
    \E s1, s2 \in Slots :
        /\ task[s1].raised
        /\ task[s1].msg \in processed
        /\ task[s2].pc = "classify"
        /\ task[s2].msg # task[s1].msg
        /\ last = [id |-> task[s2].msg, bot |-> FALSE, guild |-> 1,
                   outcome |-> "processing", n |-> last.n]

\* C16: the step in which create_issue raises ends _maybe_create_issue
\* normally, the exception caught by its own except clause; the notification
\* of the message had been sent and stays so, nothing else changes, and a
\* message delivered afterwards is still classified
C16_TicketFailureContained ==
    [][ /\ \A s \in Slots :
              (task[s].pc = "search" /\ task'[s].raised)
                  => /\ task'[s] = [task[s] EXCEPT !.pc = "done", !.raised = TRUE,
                                                   !.caught = "_maybe_create_issue"]
                     /\ task[s].notified = "sent"
                     /\ \A r \in Slots \ {s} : task'[r] = task[r]
                     /\ UNCHANGED <<processed, stats, last>>
        /\ ((last' # last /\ \E s \in Slots : task[s].attempted /\ task[s].raised)
               => StillClassified)
      ]_vars

\* create_issue raised for one message, whose notification was sent, and the
\* handler of another message has classified and notified since
C16_Witness ==
    \E s1, s2 \in Slots :
        /\ task[s1].attempted
        /\ task[s1].raised
        /\ task[s1].caught = "_maybe_create_issue"
        /\ task[s1].notified = "sent"
        /\ task[s2].msg \notin {0, task[s1].msg}
        /\ task[s2].notified = "sent"
        /\ ~task[s2].raised

-----------------------------------------------------------------------------
(* Properties of the usage accounting, under Spec *)

\* C17: total_requests equals the number of classify calls that have returned
\* a result, and every step adds to it exactly the number of classify calls
\* that return in that step: one for a call that returns, whatever the number
\* of rejected candidates before, none for a retry or for a call that raises
C17_OneRecordPerReturnedCall ==
    /\ [](stats.total_requests = returned)
    /\ [][ LET returning == {s \in Slots : /\ task[s].pc = "classify"
                                            /\ task'[s].result # NoResult}
           IN  stats'.total_requests = stats.total_requests + Cardinality(returning)
         ]_vars

\* one call has returned after two rejected candidates, which its usage shows,
\* and was recorded once; a later call has raised
C17_Witness ==
    /\ stats.total_requests = 1
    /\ stats.total_input_tokens = 3
    /\ \E s \in Slots : task[s].raised /\ task[s].result = NoResult

-----------------------------------------------------------------------------
(* Properties of create_issue around the dedup search, under SpecTracker *)

\* C18: the step in which the search of a call finds a ticket ends the call:
\* what it returns is the number, URL and title of an open ticket of the window
\* whose body holds the quoted content, and the tracker is left as it was: no
\* ticket is created, the labels are neither listed nor created
C18_DuplicateFoundChangesNothing ==
    [][ \A s \in Slots :
            (task[s].pc = "search" /\ task'[s].pc = "done")
                => /\ issues' = issues
                   /\ labels' = labels
                   /\ task'[s].created = 0
                   /\ ~task'[s].labelled
                   /\ ~task'[s].raised
                   /\ \E n \in 1..Len(issues) :
                         /\ issues[n].state = "open"
                         /\ \E k \in 1..Len(task'[s].window) : task'[s].window[k] = n
                         /\ IsSubstring(<<"> ">> \o ContentOf(task[s].msg), issues[n].body)
                         /\ task'[s].ret = [tracker |-> "github", issue_id |-> n,
                                            issue_url |-> issues[n].html_url,
                                            title |-> issues[n].title]
      ]_vars

\* a call found the older of two open tickets, the one that holds its quoted
\* content, and returned it without creating anything
C18_Witness ==
    \E s \in Slots :
        /\ task[s].pc = "done"
        /\ task[s].searched = "ok"
        /\ task[s].created = 0
        /\ Len(task[s].window) = 2
        /\ task[s].ret # None
        /\ task[s].ret.issue_id = task[s].window[2]

\* C19: a search that fails neither ends the call nor returns a ticket: the
\* call goes on to the creation step, and when its creation succeeds it has
\* created a new ticket and returns that one
C19_SearchFailureMeansCreate ==
    /\ [][ \A s \in Slots :
               (task[s].pc = "search" /\ task'[s].searched = "failed")
                   => /\ task'[s].pc = "create"
                      /\ ~task'[s].raised
                      /\ task'[s].ret = None
                      /\ issues' = issues
         ]_vars
    /\ [](\A s \in Slots :
              (task[s].searched = "failed" /\ task[s].pc = "done" /\ ~task[s].raised)
                  => /\ task[s].created # 0
                     /\ task[s].ret = IssueInfo(issues[task[s].created]))

\* the search of a call failed while an open ticket with the same quoted
\* content was in the window, and the call created a second ticket
C19_Witness ==
    \E s \in Slots :
        /\ task[s].searched = "failed"
        /\ task[s].created # 0
        /\ \E n \in 1..Len(issues) :
              /\ n # task[s].created
              /\ Listed(s, n)
              /\ IsSubstring(<<"> ">> \o ContentOf(task[s].msg), issues[n].body)

-----------------------------------------------------------------------------
(* Properties of the construction, under SpecConstruct *)

\* C20: once the constructor has run, kind none has given the no-op tracker
\* and nothing else has; kind github has given a GitHub tracker when token and
\* repo are both set and a ValueError otherwise; kind linear has given a
\* ValueError when a credential is missing and a NotImplementedError
\* otherwise; and a bot whose construction raised has handled no message
C20_FailsFastOnMissingCredentials ==
    issue_tracker # "unbuilt" =>
        /\ (settings.issue_tracker = "none" <=> issue_tracker = "NoOpIssueTracker")
        /\ (settings.issue_tracker = "github" =>
               IF settings.github_token # "" /\ settings.github_repo # ""
               THEN issue_tracker = "GitHubIssueTracker"
               ELSE issue_tracker = "ValueError")
        /\ (settings.issue_tracker = "linear" =>
               IF settings.linear_api_key # "" /\ settings.linear_team_id # ""
               THEN issue_tracker = "NotImplementedError"
               ELSE issue_tracker = "ValueError")
        /\ (issue_tracker \notin {"NoOpIssueTracker", "GitHubIssueTracker"} =>
               /\ processed = {}
               /\ last = NoDelivery
               /\ \A s \in Slots : task[s].pc = "idle")

\* the constructor raised a ValueError for kind github with a token and no repo
C20_Witness ==
    /\ issue_tracker = "ValueError"
    /\ settings.issue_tracker = "github"
    /\ settings.github_token # ""
    /\ settings.github_repo = ""

-----------------------------------------------------------------------------
(* Properties of the usage tracker, under SpecUsage *)

\* the total of field f over the usages recorded since the last reset
RECURSIVE SumRecorded(_, _)
SumRecorded(entries, f) ==
    IF entries = <<>> THEN 0
    ELSE entries[1].usage[f] + SumRecorded(Tail(entries), f)

\* C21: whatever the order in which concurrent classify calls come to record,
\* no update is lost: at every moment total_input_tokens and
\* total_output_tokens are the sums of the input and output tokens recorded
\* since the last reset, and total_requests is the number of those record calls
C21_NoLostUpdate ==
    /\ stats.total_input_tokens = SumRecorded(recorded, "input_tokens")
    /\ stats.total_output_tokens = SumRecorded(recorded, "output_tokens")
    /\ stats.total_requests = Len(recorded)

\* MaxRecords calls have recorded and all have completed; two of them were in
\* flight together and recorded in the opposite order of their numbers, with
\* different usages
C21_Witness ==
    /\ Len(recorded) = MaxRecords
    /\ \A c \in DOMAIN calls : calls[c] = "idle"
    /\ \E i, j \in 1..Len(recorded) :
          /\ i < j
          /\ recorded[i].by > recorded[j].by
          /\ recorded[j].by \in recorded[i].beside
          /\ recorded[i].usage # recorded[j].usage

\* C26: the object get_stats returned is independent of the tracker: get_stats
\* hands out the field values of that moment and leaves the tracker alone; a
\* record or a reset that changes the tracker's statistics afterwards leaves
\* the snapshot's fields as they are; an assignment to a field of the snapshot
\* leaves the tracker's statistics as they are, and so what a later get_stats
\* returns
C26_SnapshotIndependent ==
    [][ /\ (snapshot'.taken # snapshot.taken =>
               /\ snapshot'.object.fields = stats
               /\ stats' = stats)
        /\ ((snapshot'.taken = snapshot.taken /\ stats' # stats) =>
               snapshot'.object.fields = snapshot.object.fields)
        /\ ((snapshot'.taken = snapshot.taken
              /\ snapshot'.object.fields # snapshot.object.fields) =>
               stats' = stats)
      ]_vars

\* a snapshot was taken after one record; since then the tracker was reset and
\* recorded again and a field of the snapshot was assigned to, and the snapshot
\* still holds the token totals of the moment it was taken
C26_Witness ==
    /\ snapshot.taken = 1
    /\ resets = 1
    /\ Len(recorded) = 2
    /\ snapshot.object.fields.total_requests = -1
    /\ snapshot.object.fields.total_input_tokens = 1
    /\ snapshot.object.fields.first_request_at = 1
    /\ stats.first_request_at = 2

\* C27: a reset puts the tracker back in its initial state, whatever was
\* recorded before: the three totals are 0 and the two timestamps unset, and
\* stay so until the next record; the first record after it leaves the totals
\* at that record's usage, total_requests at 1 and both timestamps at that
\* record's time
C27_ResetClears ==
    /\ [][resets' # resets => stats' = UsageStats]_vars
    /\ [](recorded = <<>> => stats = UsageStats)
    /\ [](Len(recorded) = 1 =>
             /\ stats.total_input_tokens = recorded[1].usage.input_tokens
             /\ stats.total_output_tokens = recorded[1].usage.output_tokens
             /\ stats.total_requests = 1
             /\ stats.first_request_at = recorded[1].at
             /\ stats.last_request_at = recorded[1].at)

\* the tracker was reset after it had recorded twice, which a snapshot taken
\* before the reset shows, and has recorded once since, at a later time
C27_Witness ==
    /\ resets = 1
    /\ snapshot.object.fields.total_requests = 2
    /\ snapshot.object.fields.first_request_at = 1
    /\ Len(recorded) = 1
    /\ stats.total_requests = 1
    /\ stats.first_request_at = MaxClock

-----------------------------------------------------------------------------
(* Properties of concurrent deliveries of one id, under SpecIntake *)

\* C22, as stated: no two handlers of the same message id are in
\* classification at the same time
C22_AtMostOneHandlerPerId ==
    \A s1, s2 \in Slots :
        (s1 # s2 /\ task[s1].pc = "classify" /\ task[s2].pc = "classify")
            => task[s1].msg # task[s2].msg

\* C22, amended: the membership test and the insertion are one step, so a
\* delivery whose id is in the seen-set never starts a handler; two handlers of
\* one id are in classification together only when the id was evicted between
\* their deliveries, which takes a seen-set that has reached its cap
C22_SecondProceedsOnlyAfterEviction ==
    /\ [](\A s1, s2 \in Slots :
            (/\ s1 # s2
             /\ task[s1].pc = "classify" /\ task[s2].pc = "classify"
             /\ task[s1].msg = task[s2].msg)
                => Cardinality(processed) = max_processed_cache)
    /\ [][ \A s \in Slots :
             (task[s].pc = "idle" /\ task'[s].pc = "classify") =>
                 /\ task'[s].msg \notin processed
                 /\ \A r \in Slots :
                       (r # s /\ task[r].pc = "classify" /\ task[r].msg = task'[s].msg)
                           => Cardinality(processed) = max_processed_cache
          ]_vars

\* the seen-set is at its cap and has kept the id of a handler in
\* classification: a second delivery of that id has just been dropped
C22_Witness ==
    /\ last.outcome = "duplicate"
    /\ Cardinality(processed) = max_processed_cache
    /\ Cardinality({s \in Slots : task[s].pc = "classify" /\ task[s].msg = last.id}) = 1

-----------------------------------------------------------------------------
(* Properties of the texts made for a message, under SpecFormat *)

\* C23: the title is "[", the category in title case and "] ", then the first
\* TITLE_MAX_LENGTH characters of the content, then "..." exactly when the
\* content is longer than TITLE_MAX_LENGTH characters (none at exactly the
\* limit); what follows the bracketed prefix is never longer than
\* TITLE_MAX_LENGTH + 3 characters
C23_TitleShape ==
    "title" \in txt.done =>
        LET preview == SubSeq(txt.title, 4, Len(txt.title))
            long == Len(txt.content) > TITLE_MAX_LENGTH
        IN  /\ SubSeq(txt.title, 1, 3) = <<"[", CategoryDisplay(txt.category), "] ">>
            /\ preview = Take(txt.content, TITLE_MAX_LENGTH)
                            \o (IF long THEN <<"...">> ELSE <<>>)
            /\ (preview[Len(preview)] = "...") = long
            /\ CharLen(preview) <= TITLE_MAX_LENGTH + 3

\* the title of a content of exactly TITLE_MAX_LENGTH characters was built: it
\* ends with the content, without ellipsis
C23_Witness ==
    /\ "title" \in txt.done
    /\ txt.category = "bug_report"
    /\ Len(txt.content) = TITLE_MAX_LENGTH
    /\ txt.title = <<"[", "Bug Report", "] ">> \o txt.content

\* C24: the labels of a ticket are a fixed function of the category:
\* support_request gives {support, needs-response}, complaint {complaint,
\* needs-response}, bug_report {bug, needs-triage}, general_chat none and
\* other {needs-triage}
C24_LabelsOfCategory ==
    "labels" \in txt.done =>
        LET got == {txt.labels[k] : k \in 1..Len(txt.labels)}
        IN  /\ txt.category = "support_request" => got = {"support", "needs-response"}
            /\ txt.category = "complaint" => got = {"complaint", "needs-response"}
            /\ txt.category = "bug_report" => got = {"bug", "needs-triage"}
            /\ txt.category = "general_chat" => got = {}
            /\ txt.category = "other" => got = {"needs-triage"}

\* the labels of a message of category other were computed
C24_Witness ==
    /\ "labels" \in txt.done
    /\ txt.category = "other"
    /\ txt.labels = <<"needs-triage">>

\* C25: the content in the notification body is never longer than
\* MAX_NOTIFICATION_LENGTH characters: content within the limit is used
\* unchanged, longer content is replaced by its first MAX_NOTIFICATION_LENGTH - 3
\* characters and "...", which is MAX_NOTIFICATION_LENGTH characters exactly
C25_NotificationWithinLimit ==
    "notification" \in txt.done =>
        /\ CharLen(txt.notification) <= MAX_NOTIFICATION_LENGTH
        /\ IF Len(txt.content) <= MAX_NOTIFICATION_LENGTH
           THEN txt.notification = txt.content
           ELSE /\ txt.notification =
                       SubSeq(txt.content, 1, MAX_NOTIFICATION_LENGTH - 3) \o <<"...">>
                /\ CharLen(txt.notification) = MAX_NOTIFICATION_LENGTH

\* a content one character over the limit was cut
C25_Witness ==
    /\ "notification" \in txt.done
    /\ Len(txt.content) = MAX_NOTIFICATION_LENGTH + 1
    /\ txt.notification # txt.content
    /\ CharLen(txt.notification) = MAX_NOTIFICATION_LENGTH

-----------------------------------------------------------------------------
(* Termination of a handler, under SpecFair *)

\* C28: every predictor invocation and every ticket-tracker call is bounded by
\* a timeout, so a handler that awaits the predictor or the tracker comes to
\* its end even when the one it awaits never answers.  The wait is taken
\* where the predictor may still answer (returned < MaxRequests), so that the
\* handler waits for the one it awaits and for nothing else.
C28_HandlerTerminates ==
    \A s \in 1..MaxHandlers :
        (task[s].pc \in {"classify", "search"} /\ returned < MaxRequests)
            ~> (task[s].pc \in {"done", "idle"})

-----------------------------------------------------------------------------
(* Properties of the retry budgets of classify, under Spec *)

\* C29: the two budgets of an agent run are independent: at most `retries`
\* failed invocations and at most output_retries rejected candidates are
\* followed by another invocation; while the call has no result, a step that
\* counts a rejected candidate
\* leaves the count of failures as it is, and a step that counts a failure
\* leaves the count of rejected candidates as it is; the failure or the
\* rejection that exceeds its budget ends the call with an exception and no
\* result
C29_IndependentBudgets ==
    /\ [](\A s \in Slots :
            /\ task[s].failures <= retries + 1
            /\ task[s].retries <= output_retries + 1
            /\ (task[s].pc = "classify" =>
                   task[s].failures <= retries /\ task[s].retries <= output_retries)
            /\ ((task[s].failures = retries + 1 \/ task[s].retries = output_retries + 1) =>
                   /\ task[s].pc = "done"
                   /\ task[s].raised
                   /\ task[s].result = NoResult))
    /\ [][ \A s \in Slots :
             (task[s].pc = "classify" /\ task'[s] # task[s] /\ task'[s].result = NoResult) =>
                 /\ task'[s].failures \in {task[s].failures, task[s].failures + 1}
                 /\ task'[s].retries \in {task[s].retries, task[s].retries + 1}
                 /\ (task'[s].failures = task[s].failures \/ task'[s].retries = task[s].retries)
          ]_vars

\* a call that has used up both budgets, 2 failed invocations and 3 rejected
\* candidates, is still running: neither budget was charged for the other
C29_Witness ==
    \E s \in Slots :
        /\ task[s].pc = "classify"
        /\ task[s].failures = retries
        /\ task[s].retries = output_retries

-----------------------------------------------------------------------------
(* Properties of the events ignored at intake, under SpecIntake *)

\* C30: a delivery is ignored exactly when its author is a bot account, it has
\* no guild, or discord_guild_ids is not empty and does not hold its guild (an
\* empty list filters out no guild); an ignored delivery changes nothing: the
\* seen-set keeps its ids, none added and none evicted, no handler is started
\* and so nothing is classified, notified or filed
C30_IgnoredChangesNothing ==
    [][ last' # last =>
          LET filtered == \/ last'.bot
                          \/ last'.guild = 0
                          \/ /\ settings.discord_guild_ids # {}
                             /\ last'.guild \notin settings.discord_guild_ids
          IN  /\ (last'.outcome = "ignored") = filtered
              /\ filtered =>
                    /\ processed' = processed
                    /\ task' = task
                    /\ issues' = issues
                    /\ labels' = labels
                    /\ stats' = stats
      ]_vars

\* a message of a person in a guild outside the list was ignored, although its
\* id is new, while the seen-set is full and a handler is classifying
C30_Witness ==
    /\ last.outcome = "ignored"
    /\ ~last.bot
    /\ last.guild = 2
    /\ settings.discord_guild_ids = {1}
    /\ last.id \notin processed
    /\ Cardinality(processed) = max_processed_cache
    /\ \E s \in Slots : task[s].pc = "classify"

-----------------------------------------------------------------------------
(* Properties of the dedup search on any repository, under SpecSearch *)

\* the repository as the search of the call listed it
Searched == IF txt.created # 0 THEN SubSeq(issues, 1, txt.created - 1) ELSE issues

\* ticket n is open and fewer than DEDUP_SEARCH_LIMIT open tickets are newer
InDedupWindow(repo, n) ==
    /\ repo[n].state = "open"
    /\ Cardinality({m \in (n + 1)..Len(repo) : repo[m].state = "open"}) < DEDUP_SEARCH_LIMIT

\* ticket n is in the window and its body holds the quoted content
WindowMatch(repo, n) ==
    /\ InDedupWindow(repo, n)
    /\ repo[n].body # <<>>
    /\ IsSubstring(<<"> ">> \o txt.content, repo[n].body)

\* C31: the search looks at the DEDUP_SEARCH_LIMIT newest open tickets only: it
\* returns the newest of them whose body holds the quoted content, a ticket
\* without body never matches, and when no ticket of the window matches (the
\* matching tickets are closed or older than the window) it returns no match
\* and the call goes on to create a ticket
C31_SearchWindow ==
    LET repo == Searched
        matches == {n \in 1..Len(repo) : WindowMatch(repo, n)}
    IN  txt.pc # "search" =>
            /\ (txt.found # None) = (matches # {})
            /\ txt.found # None =>
                   /\ txt.found.issue_id \in matches
                   /\ \A m \in matches : m <= txt.found.issue_id
                   /\ txt.found.issue_url = html_url(txt.found.issue_id)
                   /\ txt.found.title = repo[txt.found.issue_id].title
                   /\ txt.pc = "done"
                   /\ txt.created = 0
                   /\ ~txt.raised
            /\ txt.found = None =>
                   /\ txt.pc \in {"create", "done"}
                   /\ txt.pc = "done" =>
                          \/ txt.raised /\ txt.created = 0 /\ issues = repo
                          \/ /\ ~txt.raised
                             /\ txt.created = Len(repo) + 1
                             /\ Len(issues) = txt.created
                             /\ issues[txt.created].state = "open"
                             /\ IsSubstring(<<"> ">> \o txt.content, issues[txt.created].body)

\* a ticket was created although two tickets for the same content exist, one
\* closed inside the window and one open but older than the window, and a ticket
\* without body is in the window
C31_Witness ==
    /\ txt.pc = "done"
    /\ txt.created = MaxListed + 1
    /\ LET repo == Searched
           quoted == <<"> ">> \o txt.content
       IN  /\ \E n \in 1..Len(repo) :
                  /\ repo[n].state = "open"
                  /\ IsSubstring(quoted, repo[n].body)
                  /\ ~InDedupWindow(repo, n)
           /\ \E n \in 1..Len(repo) :
                  /\ repo[n].state = "closed"
                  /\ IsSubstring(quoted, repo[n].body)
                  /\ n > 1
           /\ \E n \in 1..Len(repo) : InDedupWindow(repo, n) /\ repo[n].body = <<>>

-----------------------------------------------------------------------------
(* Properties of _create_issue_sync, under SpecLabels *)

SetOf(seq) == {seq[k] : k \in 1..Len(seq)}

\* C32: labels are ensured before the ticket is created: when a call stands
\* before repo.create_issue, or has made it, create_label has been called once
\* for every label of the category that the listing of the call did not hold,
\* in the order of the category's list, and for no label the listing held;
\* there are no label creations after the create-ticket call; and the ticket
\* is created with exactly the labels of the category
C32_LabelsBeforeTicket ==
    /\ [](\A c \in LabelCalls :
            LET call == txt.call[c]
                wanted == get_labels([classification |-> [category |-> call.category]])
                missing == {l \in SetOf(wanted) : l \notin call.existing}
            IN  call.pc # "idle" =>
                    /\ SetOf(call.issued) \subseteq missing
                    /\ \A i, j \in 1..Len(call.issued) :
                           call.issued[i] = call.issued[j] => i = j
                    /\ (call.pc = "ticket" \/ call.created # 0 \/ call.raised = "create_issue") =>
                           SetOf(call.issued) = missing
                    /\ call.created # 0 =>
                           /\ call.created \in 1..Len(issues)
                           /\ issues[call.created].labels = wanted)
    /\ [][ \A c \in LabelCalls :
             /\ txt'.call[c].issued # txt.call[c].issued =>
                    /\ txt.call[c].pc = "ensure"
                    /\ txt.call[c].created = 0
                    /\ issues' = issues
             /\ (txt.call[c].pc # "idle" /\ Len(issues') > Len(issues)
                 /\ txt'.call[c].created # txt.call[c].created) =>
                    /\ txt.call[c].pc = "ticket"
                    /\ txt'.call[c].issued = txt.call[c].issued
          ]_vars

\* a ticket for a support request was created in a repository that held
\* "needs-response" and not "support": one label creation was issued, for
\* "support", and the ticket carries both labels
C32_Witness ==
    \E c \in LabelCalls :
        /\ txt.pc = "labels"
        /\ txt.call[c].category = "support_request"
        /\ txt.call[c].existing = {"needs-response"}
        /\ txt.call[c].issued = <<"support">>
        /\ txt.call[c].created # 0
        /\ issues[txt.call[c].created].labels = <<"support", "needs-response">>
        /\ labels = {"support", "needs-response"}

\* C39: a create_label call that raises ends neither the loop nor the call:
\* the step in which it fails moves the loop to the next label, no call ever
\* ends with the exception of create_label, a call that has had failures and
\* stands before repo.create_issue has been through every label the listing
\* lacked, and the ticket it creates carries every label of the category
C39_LabelFailureSwallowed ==
    /\ [](\A c \in LabelCalls :
            LET call == txt.call[c]
                wanted == get_labels([classification |-> [category |-> call.category]])
            IN  /\ call.raised \in {"none", "get_labels", "create_issue"}
                /\ call.failed \subseteq SetOf(call.issued)
                /\ (call.failed # {} /\ call.pc = "ticket") =>
                       SetOf(call.issued) = {l \in SetOf(wanted) : l \notin call.existing}
                /\ (call.failed # {} /\ call.created # 0) =>
                       issues[call.created].labels = wanted)
    /\ [][ \A c \in LabelCalls :
             txt'.call[c].failed # txt.call[c].failed =>
                 /\ txt'.call[c].raised = "none"
                 /\ txt'.call[c].k = txt.call[c].k + 1
                 /\ txt'.call[c].pc = IF txt.call[c].k < Len(txt.call[c].wanted)
                                      THEN "ensure" ELSE "ticket"
          ]_vars

\* the creation of "support", the first label of a support request, failed;
\* "needs-response" was created after it and the ticket was created with both
\* labels, while the repository holds no label "support"
C39_Witness ==
    \E c \in LabelCalls :
        /\ txt.pc = "labels"
        /\ txt.call[c].failed = {"support"}
        /\ txt.call[c].issued = <<"support", "needs-response">>
        /\ txt.call[c].created # 0
        /\ issues[txt.call[c].created].labels = <<"support", "needs-response">>
        /\ labels = {"needs-response"}

-----------------------------------------------------------------------------
(* Properties of the order of the router, under Spec *)

\* C33: the notification comes before the tracker: a handler that has called
\* create_issue, or awaits it, had its notification dispatched and returned
\* ("sent", not "failed") for the same message, and its result requires
\* attention; the step that calls create_issue is the step of the router, which
\* begins with the dispatch; a later failure of create_issue leaves the
\* notification as it was
C33_NotifyBeforeTracker ==
    /\ [](\A s \in Slots :
            (task[s].attempted \/ task[s].pc = "search") =>
                /\ task[s].notified = "sent"
                /\ task[s].attempted
                /\ task[s].result # NoResult
                /\ task[s].result.requires_attention)
    /\ [][ \A s \in Slots :
             /\ (task'[s].attempted /\ ~task[s].attempted) =>
                    /\ task[s].pc = "classify"
                    /\ task[s].notified = "no"
                    /\ task'[s].notified = "sent"
                    /\ task'[s].msg = task[s].msg
             /\ (task[s].pc = "search" /\ task'[s].pc = "done") =>
                    /\ task'[s].notified = "sent"
                    /\ task'[s].msg = task[s].msg
          ]_vars

\* the notification of a message was sent and the create_issue call for the
\* same message then raised
C33_Witness ==
    \E s \in Slots :
        /\ task[s].pc = "done"
        /\ task[s].notified = "sent"
        /\ task[s].attempted
        /\ task[s].raised
        /\ task[s].caught = "_maybe_create_issue"

\* C37: a handler whose accepted classification does not require attention
\* (its category is general_chat or other) dispatches no notification and
\* makes no tracker call and has ended, whatever the tracker kind and the
\* allow-list, also an allow-list that names general_chat and other
C37_NoAttentionNoAction ==
    \A s \in Slots :
        (task[s].result # NoResult /\ ~task[s].result.requires_attention) =>
            /\ task[s].result.category \in {"general_chat", "other"}
            /\ task[s].notified = "no"
            /\ ~task[s].attempted
            /\ task[s].pc = "done"
            /\ ~task[s].raised

\* with a GitHub tracker and the allow-list {general_chat, other}, a message
\* classified general_chat ended without notification and without tracker call
C37_Witness ==
    /\ settings.issue_tracker = "github"
    /\ settings.issue_categories = {"general_chat", "other"}
    /\ \E s \in Slots :
          /\ task[s].result # NoResult
          /\ task[s].result.category = "general_chat"
          /\ task[s].pc = "done"
          /\ task[s].notified = "no"
          /\ ~task[s].attempted

-----------------------------------------------------------------------------
(* Properties of the eviction, under SpecIntake *)

\* C34: the eviction removes the overflow and no more: the seen-set holds
\* min(number of distinct eligible ids delivered, max_processed_cache) ids;
\* while no more than max_processed_cache distinct ids have been delivered the
\* seen-set holds every one of them (nothing was evicted) and a delivery that
\* passes the seen test is the first of its id; an insert into a full set
\* evicts exactly one id and an insert into a set that is not full evicts none
C34_EvictsExactlyOverflow ==
    /\ [](Cardinality(processed) =
              IF Cardinality(delivered) < max_processed_cache
              THEN Cardinality(delivered) ELSE max_processed_cache)
    /\ [](Cardinality(delivered) <= max_processed_cache => processed = delivered)
    /\ [][ (last' # last /\ last'.outcome \in {"processing", "empty"}) =>
             LET id == last'.id
             IN  /\ id \notin processed
                 /\ Cardinality(processed) = max_processed_cache =>
                        Cardinality((processed \cup {id}) \ processed') = 1
                 /\ Cardinality(processed) < max_processed_cache =>
                        processed' = processed \cup {id}
                 /\ Cardinality(delivered') <= max_processed_cache => id \notin delivered
          ]_vars

\* a third distinct id was inserted into the full set and one id was evicted
C34_Witness ==
    /\ Cardinality(delivered) = max_processed_cache + 1
    /\ Cardinality(processed) = max_processed_cache
    /\ processed \subseteq delivered
    /\ last.outcome = "processing"

\* C35: the eviction that the insert of an id triggers never removes that id:
\* after a delivery that passed the seen test, its id is in the seen-set
C35_InsertedIdStays ==
    [][ (last' # last /\ last'.outcome \in {"processing", "empty"}) =>
          last'.id \in processed'
      ]_vars

-----------------------------------------------------------------------------
(* Properties of blank messages, under SpecIntake *)

\* C36 as stated: once an eligible delivery of a blank message has been
\* made, every later eligible delivery of the same id is dropped as already seen
C36_BlankRedeliveryDropped ==
    [][ (/\ last' # last
         /\ last'.outcome # "ignored"
         /\ IsBlank(ContentOf(last'.id))
         /\ last'.id \in delivered)
        => last'.outcome = "duplicate"
      ]_vars

\* C36 as amended: an eligible delivery of a blank message never starts a
\* handler; when its id is not in the seen-set the id is inserted, and the
\* insert into a full set evicts one id, any one, the inserted one included;
\* when its id is in the seen-set the delivery is dropped as already seen and
\* the seen-set stays as it is; no handler ever runs for a blank message
C36_BlankMarkedNotClassified ==
    /\ [](\A s \in Slots : task[s].pc # "idle" => ~IsBlank(ContentOf(task[s].msg)))
    /\ [][ (/\ last' # last
            /\ last'.outcome # "ignored"
            /\ IsBlank(ContentOf(last'.id)))
           => /\ task' = task
              /\ IF last'.id \in processed
                 THEN /\ last'.outcome = "duplicate"
                      /\ processed' = processed
                 ELSE /\ last'.outcome = "empty"
                      /\ processed' \subseteq processed \cup {last'.id}
                      /\ Cardinality(processed) < max_processed_cache =>
                             processed' = processed \cup {last'.id}
                      /\ Cardinality(processed) = max_processed_cache =>
                             Cardinality(processed') = max_processed_cache
         ]_vars

\* a blank message was delivered again and dropped as already seen, after its
\* first delivery had filled the seen-set beyond the cap
C36_Witness ==
    /\ last.outcome = "duplicate"
    /\ IsBlank(ContentOf(last.id))
    /\ last.id \in processed
    /\ Cardinality(delivered) > max_processed_cache
    /\ \A s \in Slots : task[s].msg # last.id

-----------------------------------------------------------------------------
(* Properties of the whole pipeline, under SpecEndToEnd *)

\* the label lists of the categories that need attention
AttentionLabelSets ==
    {get_labels([classification |-> [category |-> c]]) : c \in attention_categories}

\* C38: every ticket comes from a message whose accepted classification has a
\* category among support_request, complaint and bug_report and a confidence
\* of at least min_confidence: the step that adds a ticket is the creation step
\* of a handler with such a result, notified and past the search, and the
\* ticket carries the labels of that category; so every ticket of the
\* repository has a label list that is not empty and is the list of one of the
\* three categories, never the empty list of general_chat or the list of other
C38_TicketsOnlyForAttention ==
    /\ [](\A n \in 1..Len(issues) :
            /\ Len(issues[n].labels) > 0
            /\ issues[n].labels \in AttentionLabelSets
            /\ issues[n].labels # get_labels([classification |-> [category |-> "other"]]))
    /\ [](\A s \in Slots :
            (task[s].pc = "create" \/ task[s].created # 0) =>
                /\ task[s].result.category \in attention_categories
                /\ task[s].result.confidence >= min_confidence
                /\ task[s].result.requires_attention)
    /\ [][ Len(issues') > Len(issues) =>
             \E s \in Slots :
                 /\ task[s].pc = "create"
                 /\ task[s].result.category \in attention_categories
                 /\ task[s].result.confidence >= min_confidence
                 /\ task'[s].created = Len(issues')
                 /\ issues' = Append(issues, issues'[Len(issues')])
                 /\ issues'[Len(issues')].labels =
                        get_labels([classification |-> task[s].result])
                 /\ issues'[Len(issues')].body =
                        build_body(MessageContext(task[s].msg, ContentOf(task[s].msg),
                                                  task[s].result))
          ]_vars

\* with an empty allow-list a ticket was created for a message classified
\* bug_report with confidence 0.95 that the predictor had not flagged: the
\* ticket carries the two labels of bug_report
C38_Witness ==
    /\ settings.issue_categories = {}
    /\ \E s \in Slots :
          /\ task[s].created # 0
          /\ ~task[s].said
          /\ task[s].result.category = "bug_report"
          /\ task[s].result.confidence = 95
          /\ issues[task[s].created].labels = <<"bug", "needs-triage">>

-----------------------------------------------------------------------------
(* Properties of the statistics between resets, under SpecUsage *)

\* C40: in every step that is not a reset, whatever classify calls are in
\* flight, the two token totals and total_requests do not decrease,
\* first_request_at keeps its value once it has one, last_request_at does not
\* move backwards, and the record that takes total_requests from 0 sets
\* first_request_at to the time it read; whenever total_requests > 0 both
\* timestamps are set and first_request_at <= last_request_at, and while
\* total_requests = 0 neither is set
C40_StatsMonotoneBetweenResets ==
    /\ [](IF stats.total_requests > 0
          THEN /\ stats.first_request_at # NoTime
               /\ stats.last_request_at # NoTime
               /\ stats.first_request_at <= stats.last_request_at
               /\ stats.last_request_at <= now
          ELSE /\ stats.first_request_at = NoTime
               /\ stats.last_request_at = NoTime)
    /\ [][ resets' = resets =>
             /\ stats'.total_input_tokens >= stats.total_input_tokens
             /\ stats'.total_output_tokens >= stats.total_output_tokens
             /\ stats'.total_requests >= stats.total_requests
             /\ stats.first_request_at # NoTime =>
                    stats'.first_request_at = stats.first_request_at
             /\ stats'.last_request_at >= stats.last_request_at
             /\ (stats.total_requests = 0 /\ stats'.total_requests > 0) =>
                    stats'.first_request_at = now
          ]_vars

\* two calls that were in flight together have recorded, the first at time 1
\* and the second at time 2, with no reset in between
C40_Witness ==
    /\ resets = 0
    /\ Len(recorded) = 2
    /\ recorded[1].beside # {}
    /\ recorded[1].by # recorded[2].by
    /\ stats.total_requests = 2
    /\ stats.first_request_at = 1
    /\ stats.last_request_at = 2

====
